---- MODULE Spec2Model ----
(***************************************************************************)
(* A model of the CDB codec of pcmdbedit (cdb_converter.js): the binary    *)
(* writer and reader, the compression framing, the metadata packing and    *)
(* the two pipelines cdbToSQLite and sqliteToCDB.                          *)
(*                                                                         *)
(* Representation.  A byte stream is a sequence of 0..255.  A 32-bit word  *)
(* is the sequence of its four bytes, least significant first, because the *)
(* words of the format (0xAAAAAAAA, negative integers stored as uint32) do *)
(* not fit the model checker's integers; a word is turned into a number    *)
(* only where the code uses it as one.  A JavaScript string is the         *)
(* sequence of its UTF-8 bytes (the model draws ASCII text, for which      *)
(* TextEncoder and TextDecoder are the identity on the codes).             *)
(***************************************************************************)
EXTENDS Integers, Sequences, FiniteSets, TLC

\* ------------------------------------------------------------------ bounds

MaxTables == 2
MaxCols == 2
MaxRows == 2
MaxColumnRows == 3
MaxHeldRows == 2
MaxBatchRows == 6
MaxQueries == 2
MaxLoads == 2
MaxClicks == 1
MaxOps == 5
MaxPlain == 5
MaxPacked == 300

\* --------------------------------------------------------------- constants

CHUNK_BEGIN == <<170, 170, 170, 170>>
CHUNK_SEPARATOR == <<187, 187, 187, 187>>
CHUNK_END == <<204, 204, 204, 204>>
ARRAY_BEGIN == <<221, 221, 221, 221>>
ARRAY_END == <<238, 238, 238, 238>>
COMPRESSED_MAGIC == <<255, 255, 255, 255>>

WRAPPER == 0
DATABASE_TABLES == 1
DATABASE_FLAGS == 2
TABLE == 16
ROW_COUNT == 17
COLUMN_DEFINITIONS == 18
TABLE_ID == 21
TABLE_FLAGS == 22
COLUMN == 32
COLUMN_DATA_TYPE == 33
COLUMN_VALUES == 34
COLUMN_BLOB_DATA == 35
COLUMN_INDEX == 36

DT_INTEGER == 0
DT_FLOAT == 1
DT_STRING == 2
DT_FLOAT_LIST == 10
DT_INTEGER_LIST == 11

\* The data types CDB_FORMAT.md documents and DATA_TYPE does not define.
DT_BOOLEAN == 3
DT_INTEGER_BYTE == 4
DT_INTEGER_SHORT == 5

DocumentedTypes == {0, 1, 2, 3, 4, 5, 10, 11}

DATABASE_FLAGS_VALUE == 274

TABLE_FLAGS_BY_ID ==
    3 :> 65 @@ 4 :> 50 @@ 8 :> 129 @@ 9 :> 241 @@ 10 :> 209 @@ 11 :> 241 @@ 12 :> 241 @@ 14 :> 129 @@
    16 :> 65 @@ 17 :> 97 @@ 18 :> 49 @@ 19 :> 49 @@ 22 :> 225 @@ 23 :> 161 @@ 24 :> 65 @@ 25 :> 188 @@
    26 :> 113 @@ 27 :> 33 @@ 28 :> 51 @@ 29 :> 33 @@ 30 :> 129 @@ 31 :> 177 @@ 35 :> 129 @@ 36 :> 241 @@
    39 :> 49 @@ 40 :> 241 @@ 41 :> 81 @@ 44 :> 241 @@ 45 :> 113 @@ 50 :> 33 @@ 51 :> 76 @@ 52 :> 97 @@
    53 :> 81 @@ 54 :> 33 @@ 55 :> 81 @@ 59 :> 241 @@ 65 :> 227 @@ 80 :> 33 @@ 81 :> 19 @@ 83 :> 19 @@
    84 :> 19 @@ 85 :> 35 @@ 86 :> 33 @@ 87 :> 241 @@ 92 :> 113 @@ 93 :> 35 @@ 94 :> 82 @@ 98 :> 49 @@
    99 :> 35 @@ 100 :> 65 @@ 101 :> 83 @@ 107 :> 163 @@ 108 :> 241 @@ 109 :> 75 @@ 110 :> 49 @@ 111 :> 81 @@
    113 :> 49 @@ 117 :> 35 @@ 118 :> 129 @@ 119 :> 33 @@ 122 :> 241 @@ 124 :> 65 @@ 125 :> 60 @@ 126 :> 19 @@
    127 :> 19 @@ 128 :> 65 @@ 129 :> 81 @@ 131 :> 241 @@ 132 :> 44 @@ 134 :> 241 @@ 135 :> 51 @@ 136 :> 99 @@
    137 :> 227 @@ 142 :> 195 @@ 143 :> 145 @@ 144 :> 113 @@ 145 :> 33 @@ 146 :> 35 @@ 147 :> 49 @@ 149 :> 19 @@
    152 :> 241 @@ 153 :> 49 @@ 155 :> 33 @@ 159 :> 33 @@ 164 :> 243 @@ 166 :> 241 @@ 168 :> 161 @@ 170 :> 146 @@
    172 :> 241 @@ 173 :> 33 @@ 175 :> 241 @@ 177 :> 130 @@ 179 :> 113 @@ 180 :> 145 @@ 181 :> 97 @@ 185 :> 82 @@
    186 :> 193 @@ 192 :> 65 @@ 193 :> 242 @@ 200 :> 50 @@ 202 :> 98 @@ 203 :> 33 @@ 204 :> 65 @@ 205 :> 49 @@
    206 :> 92 @@ 207 :> 145 @@ 208 :> 65 @@ 209 :> 33 @@ 210 :> 49 @@ 211 :> 34 @@ 213 :> 17 @@ 215 :> 177 @@
    217 :> 81 @@ 218 :> 156 @@ 220 :> 241 @@ 221 :> 145 @@ 223 :> 65 @@ 224 :> 97 @@ 225 :> 65 @@ 228 :> 241 @@
    229 :> 161 @@ 230 :> 49 @@ 231 :> 33 @@ 236 :> 33 @@ 240 :> 241 @@ 241 :> 65 @@ 242 :> 19 @@ 244 :> 178 @@
    245 :> 241 @@ 246 :> 33 @@ 249 :> 115 @@ 250 :> 193 @@ 251 :> 83 @@ 252 :> 193 @@ 253 :> 49 @@ 254 :> 92 @@
    255 :> 83 @@ 256 :> 19 @@ 257 :> 81 @@ 258 :> 97 @@ 259 :> 33 @@ 263 :> 65 @@ 264 :> 129 @@ 265 :> 33 @@
    266 :> 129 @@ 268 :> 33 @@ 270 :> 19 @@ 273 :> 65 @@ 274 :> 129

\* JavaScript's null, as a value comparable with byte sequences.
Null == <<-1>>

\* ----------------------------------------------------------- byte helpers

\* Bind(v, Op) is Op(v): an expression under the name the code gives its
\* value (`const name = expression`), evaluated once.
Bind(v, Op(_)) == Op(v)

Max(a, b) == IF a >= b THEN a ELSE b

Min(a, b) == IF a <= b THEN a ELSE b

Zeros(n) == [i \in 1..n |-> 0]

\* DataView.setUint32(pos, value, true) of a number: ToUint32(value), least
\* significant byte first (\div is the floor division, so a negative value
\* gives its two's complement).
LE32(n) ==
    << n % 256, (n \div 256) % 256, (n \div 65536) % 256, (n \div 16777216) % 256 >>

\* DataView.getUint32(pos, true), for the words below 2^31 (sizes, kinds,
\* counts, identifiers).
U32(w) == w[1] + 256 * w[2] + 65536 * w[3] + 16777216 * w[4]

\* A mutant of ToInt32: the sign bit dropped instead of weighed -2^31.
ToInt32SignDropped(w) == w[1] + 256 * w[2] + 65536 * w[3] + 16777216 * (w[4] % 128)

\* getUint32(...) | 0: the signed integer congruent to the word modulo 2^32.
ToInt32(w) ==
    w[1] + 256 * w[2] + 65536 * w[3]
        + 16777216 * (IF w[4] >= 128 THEN w[4] - 256 ELSE w[4])

\* The words the model can use as a number: those below 2^31.
IsSmall(w) == w[4] < 128

\* Uint8Array.set(bytes, pos) on a buffer that holds them.
SetBytes(buf, pos, bytes) ==
    SubSeq(buf, 1, pos) \o bytes \o SubSeq(buf, pos + Len(bytes) + 1, Len(buf))

\* buffer.subarray(from, to), offsets from 0, clamped to the buffer as
\* TypedArray.subarray clamps them.
Subarray(buf, from, to) ==
    LET f == Min(Max(from, 0), Len(buf))
        t == Min(Max(to, 0), Len(buf))
    IN  IF t <= f THEN <<>> ELSE [i \in 1..(t - f) |-> buf[f + i]]

\* A mutant of Padding: the final mask forgotten, 4 bytes at a multiple of 4.
PaddingUnmasked(pos) == 4 - (pos % 4)

\* (4 - (this.pos & 3)) & 3
Padding(pos) == (4 - (pos % 4)) % 4

\* ------------------------------------------------------------- CDBWriter
\* A writer is [buffer, capacity, pos, chunkStack, closedChunks, fault].
\* this.buffer is a Uint8Array of capacity bytes of which only [0, pos) has
\* been written: the record keeps those bytes as buffer (Len(buffer) = pos)
\* and the rest, zero since its allocation, as the number capacity.  fault is
\* TRUE once a method has thrown (writeChunkClose on the empty stack throws
\* on chunk.size); a method called on a faulted writer is never reached.

NewWriter(estimatedSize) ==
    [buffer |-> <<>>, capacity |-> estimatedSize, pos |-> 0, chunkStack |-> <<>>,
     closedChunks |-> <<>>, fault |-> FALSE]

\* Math.max(Math.ceil(this.buffer.length * 1.5), this.pos + additionalBytes)
GrowSize(len, needed) == Max((3 * len + 1) \div 2, needed)

\* newBuffer.set(this.buffer) keeps the bytes written.
ensureCapacity(w, additionalBytes) ==
    IF w.pos + additionalBytes > w.capacity
    THEN [w EXCEPT !.capacity = GrowSize(w.capacity, w.pos + additionalBytes)]
    ELSE w

writeBytes(w, bytes) ==
    IF w.fault THEN w
    ELSE [ensureCapacity(w, Len(bytes)) EXCEPT
            !.buffer = @ \o bytes, !.pos = @ + Len(bytes)]

write32(w, word) ==
    IF w.fault THEN w
    ELSE [ensureCapacity(w, 4) EXCEPT !.buffer = @ \o word, !.pos = @ + 4]

\* The bytes skipped are those of the fresh buffer: zero.
writePadding(w) ==
    LET padding == Padding(w.pos)
    IN  IF ~w.fault /\ padding > 0
        THEN [ensureCapacity(w, padding) EXCEPT
                !.buffer = @ \o Zeros(padding), !.pos = @ + padding]
        ELSE w

\* `description ? 1 : 0`: null and the empty string are both falsy.
Truthy(description) == description # Null /\ description # <<>>

writeChunkOpen(w, chunkType, description) ==
    IF w.fault THEN w
    ELSE [write32(writePadding(
            Bind(write32(write32(write32(write32(write32(w,
                    CHUNK_BEGIN), LE32(0)), LE32(chunkType)), LE32(0)),
                    LE32(IF Truthy(description) THEN 1 ELSE 0)),
                 LAMBDA h :
                    IF Truthy(description)
                    THEN writeBytes(writeBytes(write32(h, LE32(Len(description) + 1)),
                                               description), <<0>>)
                    ELSE h)), CHUNK_SEPARATOR)
          EXCEPT !.chunkStack = Append(@, [type |-> chunkType, startPos |-> w.pos])]

\* A mutant of ChunkSize: the size taken before the end marker is written.
ChunkSizeBeforeEnd(endPos, startPos) == endPos - startPos - 4

\* chunk.size = this.pos - chunk.startPos, taken after the end marker.
ChunkSize(endPos, startPos) == endPos - startPos

writeChunkClose(w) ==
    LET n == Len(w.chunkStack)
    IN  IF w.fault THEN w
        ELSE Bind(write32(writePadding(w), CHUNK_END), LAMBDA e :
                IF n = 0
                THEN [e EXCEPT !.fault = TRUE]
                ELSE [e EXCEPT
                        !.chunkStack = SubSeq(w.chunkStack, 1, n - 1),
                        !.closedChunks = Append(w.closedChunks,
                            [type |-> w.chunkStack[n].type,
                             startPos |-> w.chunkStack[n].startPos,
                             size |-> ChunkSize(e.pos, w.chunkStack[n].startPos)])])

\* The offset of the size field: chunk.startPos + 4.
SizeSlot(startPos) == startPos + 4

RECURSIVE PatchSizes(_, _, _)
PatchSizes(buffer, closed, k) ==
    IF k > Len(closed) THEN buffer
    ELSE PatchSizes(SetBytes(buffer, SizeSlot(closed[k].startPos),
                             LE32(closed[k].size)), closed, k + 1)

\* this.buffer.subarray(0, this.pos), the sizes patched in.
getData(w) == PatchSizes(w.buffer, w.closedChunks, 1)


\* ------------------------------------------------------ JavaScript values
\* A cell value is [t, n, f, neg, s]:
\*   t = "null"   null (SQL NULL);
\*   t = "num"    the number n + f/10^6 (n its integer part, f its fraction in
\*                millionths, neg its sign): an int32 when f = 0;
\*   t = "f32"    a float32 that is no multiple of 10^-6, kept as its word s;
\*   t = "nan"    NaN;
\*   t = "str"    the string with UTF-8 bytes s.

NullValue == [t |-> "null", n |-> 0, f |-> 0, neg |-> FALSE, s |-> <<>>]

NaNValue == [t |-> "nan", n |-> 0, f |-> 0, neg |-> FALSE, s |-> <<>>]

IntValue(n) == [t |-> "num", n |-> n, f |-> 0, neg |-> n < 0, s |-> <<>>]

FracValue(neg, n, f) == [t |-> "num", n |-> n, f |-> f, neg |-> neg, s |-> <<>>]

OpaqueFloat(w) == [t |-> "f32", n |-> 0, f |-> 0, neg |-> FALSE, s |-> w]

StrValue(s) == [t |-> "str", n |-> 0, f |-> 0, neg |-> FALSE, s |-> s]

IsDigit(c) == c >= 48 /\ c <= 57

Million == 1000000

RECURSIVE Pow2(_)
Pow2(k) == IF k = 0 THEN 1 ELSE 2 * Pow2(k - 1)

\* The decimal digits of a natural number, as character codes.
RECURSIVE NatToStr(_)
NatToStr(n) ==
    IF n < 10 THEN <<48 + n>> ELSE Append(NatToStr(n \div 10), 48 + (n % 10))

\* Number.prototype.toString of an int32 (the digits of a negative number are
\* taken without negating it, -2^31 having no positive counterpart here).
RECURSIVE NegDigits(_)
NegDigits(n) ==
    LET d == (10 - (n % 10)) % 10
        rest == (n + d) \div 10
    IN  IF rest = 0 THEN <<48 + d>> ELSE Append(NegDigits(rest), 48 + d)

IntToStr(n) == IF n >= 0 THEN NatToStr(n) ELSE <<45>> \o NegDigits(n)

\* The leading run of digits of s from index i.
RECURSIVE DigitRunEnd(_, _)
DigitRunEnd(s, i) ==
    IF i <= Len(s) /\ IsDigit(s[i]) THEN DigitRunEnd(s, i + 1) ELSE i

\* The value of the digits s[i..j-1], modulo 2^32 as a signed integer when
\* it is used through `| 0`; the model's texts stay below 2^31.
RECURSIVE DigitsValue(_, _, _, _)
DigitsValue(s, i, j, acc) ==
    IF i >= j THEN acc ELSE DigitsValue(s, i + 1, j, acc * 10 + (s[i] - 48))

\* The value of the digits after a minus sign, taken downwards so that
\* -2^31 is reached without passing 2^31.
RECURSIVE NegativeValue(_, _, _, _)
NegativeValue(s, i, j, acc) ==
    IF i >= j THEN acc ELSE NegativeValue(s, i + 1, j, acc * 10 - (s[i] - 48))

IsSpace(c) == c = 32 \/ c = 9 \/ c = 10 \/ c = 13

RECURSIVE SkipSpaces(_, _)
SkipSpaces(s, i) ==
    IF i <= Len(s) /\ IsSpace(s[i]) THEN SkipSpaces(s, i + 1) ELSE i

\* parseInt(s): [ok, n]; ok = FALSE is NaN.  Leading white space, an optional
\* sign, then the longest run of digits.
ParseInt(s) ==
    Bind(SkipSpaces(s, 1), LAMBDA a :
        LET signed == a <= Len(s) /\ (s[a] = 45 \/ s[a] = 43)
            b == IF signed THEN a + 1 ELSE a
        IN  Bind(DigitRunEnd(s, b), LAMBDA e :
                IF e = b THEN [ok |-> FALSE, n |-> 0]
                ELSE [ok |-> TRUE,
                      n |-> IF signed /\ s[a] = 45 THEN NegativeValue(s, b, e, 0)
                            ELSE DigitsValue(s, b, e, 0)]))

\* parseFloat(s): a JavaScript value ("nan" or "num").  A sign, digits, and an
\* optional fraction of which the model keeps six digits (the texts the
\* decoder writes have no more).
RECURSIVE FracMicros(_, _, _, _, _)
FracMicros(s, i, j, scale, acc) ==
    IF i >= j \/ scale = 0 THEN acc
    ELSE FracMicros(s, i + 1, j, scale \div 10, acc + (s[i] - 48) * scale)

ParseFloat(s) ==
    Bind(SkipSpaces(s, 1), LAMBDA a :
        LET signed == a <= Len(s) /\ (s[a] = 45 \/ s[a] = 43)
            neg == signed /\ s[a] = 45
            b == IF signed THEN a + 1 ELSE a
        IN  Bind(DigitRunEnd(s, b), LAMBDA e :
                LET hasDot == e <= Len(s) /\ s[e] = 46
                IN  Bind(IF hasDot THEN DigitRunEnd(s, e + 1) ELSE e, LAMBDA fe :
                    Bind(DigitsValue(s, b, e, 0), LAMBDA v :
                    Bind(IF hasDot THEN FracMicros(s, e + 1, fe, 100000, 0) ELSE 0,
                         LAMBDA f :
                        IF e = b /\ (~hasDot \/ fe = e + 1) THEN NaNValue
                        ELSE FracValue(neg /\ (v # 0 \/ f # 0),
                                       IF neg THEN 0 - v ELSE v, f))))))

\* String(value): the text of a value.
RECURSIVE StripZeros(_)
StripZeros(s) ==
    IF Len(s) > 0 /\ s[Len(s)] = 48 THEN StripZeros(SubSeq(s, 1, Len(s) - 1))
    ELSE s

Pad6(f) == Bind(NatToStr(f), LAMBDA d : [i \in 1..(6 - Len(d)) |-> 48] \o d)

Magnitude(n) == IF n < 0 THEN 0 - n ELSE n

\* Number.prototype.toFixed(6) of a number that is a multiple of 10^-6.
ToFixed6(v) ==
    (IF v.neg THEN <<45>> ELSE <<>>) \o NatToStr(Magnitude(v.n)) \o <<46>> \o Pad6(v.f)

NumberToString(v) ==
    IF v.f = 0 THEN IntToStr(v.n)
    ELSE (IF v.neg THEN <<45>> ELSE <<>>) \o NatToStr(Magnitude(v.n)) \o <<46>>
            \o StripZeros(Pad6(v.f))

ToStr(v) ==
    CASE v.t = "str" -> v.s
      [] v.t = "num" -> NumberToString(v)
      [] v.t = "null" -> <<110, 117, 108, 108>>
      [] v.t = "nan" -> <<78, 97, 78>>
      [] OTHER -> <<63>>

\* ------------------------------------------------- IEEE-754 reinterpretation

RECURSIVE TrailingZeros(_)
TrailingZeros(a) == IF a % 2 = 1 THEN 0 ELSE 1 + TrailingZeros(a \div 2)

RECURSIVE BitLength(_)
BitLength(a) == IF a = 0 THEN 0 ELSE 1 + BitLength(a \div 2)

F32Sign(w) == w[4] >= 128

F32Exponent(w) == (w[4] % 128) * 2 + (w[3] \div 128)

F32Mantissa(w) == w[1] + 256 * w[2] + 65536 * (w[3] % 128)

\* The number n * 2^-k with its sign, when it is a multiple of 10^-6.
Dyadic(neg, a, k) ==
    Bind(Pow2(k), LAMBDA p :
        FracValue(neg /\ a # 0, (IF neg THEN -1 ELSE 1) * (a \div p),
                  (a % p) * (Million \div p)))

\* view.setUint32(0, w); view.getFloat32(0): the number a word denotes.
F32ToNumber(w) ==
    Bind(F32Exponent(w), LAMBDA e :
    Bind(8388608 + F32Mantissa(w), LAMBDA mant :
        LET k == 150 - e
        IN  IF e = 255 THEN (IF F32Mantissa(w) # 0 THEN NaNValue ELSE OpaqueFloat(w))
            ELSE IF e = 0
            THEN (IF w = <<0, 0, 0, 0>> THEN IntValue(0) ELSE OpaqueFloat(w))
            ELSE IF k <= 0 THEN
                (IF k >= -7
                 THEN IntValue((IF F32Sign(w) THEN -1 ELSE 1) * mant * Pow2(0 - k))
                 ELSE OpaqueFloat(w))
            ELSE Bind(Min(TrailingZeros(mant), Max(k, 0)), LAMBDA z :
                    IF k - z <= 6 THEN Dyadic(F32Sign(w), mant \div Pow2(z), k - z)
                    ELSE OpaqueFloat(w))))

F32Word(neg, e, m) ==
    << m % 256, (m \div 256) % 256, (m \div 65536) + 128 * (e % 2),
       (e \div 2) + (IF neg THEN 128 ELSE 0) >>

NAN_WORD == <<0, 0, 192, 127>>

\* What the model cannot round: a number that is no float32.
InexactWord == <<-3, -3, -3, -3>>

\* The float32 of a / 2^k (a > 0), rounding a of more than 24 bits to the
\* nearest even.
RoundToF32(neg, a, k) ==
    Bind(BitLength(a), LAMBDA len :
        LET shift == len - 24
        IN  Bind(Pow2(Max(shift, 0)), LAMBDA unit :
            Bind(IF shift > 0 THEN Pow2(shift - 1) ELSE 1, LAMBDA half :
                LET q == a \div unit
                    rem == a % unit
                    up == shift > 0 /\ (rem > half \/ (rem = half /\ q % 2 = 1))
                    q2 == IF up THEN q + 1 ELSE q
                    carry == q2 = 16777216
                IN  F32Word(neg,
                            127 + (len - 1) - k + (IF carry THEN 1 ELSE 0),
                            (IF shift > 0 THEN (IF carry THEN 8388608 ELSE q2)
                             ELSE a * Pow2(24 - len)) - 8388608))))

\* view.setFloat32(0, number); view.getUint32(0): the word of a number.
NumberToF32(v) ==
    CASE v.t = "f32" -> v.s
      [] v.t = "num" /\ v.f = 0 /\ v.n = 0 -> <<0, 0, 0, 0>>
      [] v.t = "num" /\ v.f = 0 /\ v.n = -2147483647 - 1 -> <<0, 0, 0, 207>>
      [] v.t = "num" /\ v.f = 0 /\ v.n # 0 /\ v.n # -2147483647 - 1 ->
            RoundToF32(v.n < 0, Magnitude(v.n), 0)
      [] v.t = "num" /\ v.f # 0 /\ v.f % 15625 = 0 /\ Magnitude(v.n) < 16777216 ->
            RoundToF32(v.neg, Magnitude(v.n) * 64 + v.f \div 15625, 6)
      [] v.t = "num" /\ v.f # 0 /\ ~(v.f % 15625 = 0 /\ Magnitude(v.n) < 16777216) ->
            InexactWord
      [] OTHER -> NAN_WORD

\* parseFloat(value) of a cell: a number is itself, text is parsed, null and
\* NaN give NaN.
ParseFloatValue(v) ==
    CASE v.t = "str" -> ParseFloat(v.s)
      [] v.t = "num" -> v
      [] v.t = "f32" -> v
      [] OTHER -> NaNValue

\* Number(value) | 0 as DataView.setUint32 takes a cell: ToUint32(ToNumber(v)).
\* Text is a number when it is an integer literal; other text is NaN, and
\* NaN, null and undefined write 0.
IsIntLiteral(s) ==
    LET b == IF Len(s) > 0 /\ (s[1] = 45 \/ s[1] = 43) THEN 2 ELSE 1
    IN  b <= Len(s) /\ DigitRunEnd(s, b) = Len(s) + 1

ToUint32Word(v) ==
    LE32(CASE v.t = "num" -> v.n
           [] v.t = "str" /\ IsIntLiteral(v.s) -> ParseInt(v.s).n
           [] OTHER -> 0)

\* -------------------------------------------------- CDBWriter: column data

\* s.split(','): the fields between the commas.
RECURSIVE SplitFrom(_, _, _, _)
SplitFrom(s, i, cur, acc) ==
    IF i > Len(s) THEN Append(acc, cur)
    ELSE IF s[i] = 44 THEN SplitFrom(s, i + 1, <<>>, Append(acc, cur))
    ELSE SplitFrom(s, i + 1, Append(cur, s[i]), acc)

Split(s) == SplitFrom(s, 1, <<>>, <<>>)

RECURSIVE TrimEnd(_)
TrimEnd(s) ==
    IF Len(s) > 0 /\ IsSpace(s[Len(s)]) THEN TrimEnd(SubSeq(s, 1, Len(s) - 1)) ELSE s

Trim(s) == TrimEnd(SubSeq(s, SkipSpaces(s, 1), Len(s)))

\* A mutant of SliceInner: the parentheses left on the text.
SliceNothing(s) == s

\* String(value).slice(1, -1)
SliceInner(s) == IF Len(s) >= 2 THEN SubSeq(s, 2, Len(s) - 1) ELSE <<>>

RECURSIVE WriteWords(_, _, _)
WriteWords(w, words, k) ==
    IF w.fault \/ k > Len(words) THEN w ELSE WriteWords(write32(w, words[k]), words, k + 1)

RECURSIVE Concat(_, _)
Concat(seqs, k) == IF k > Len(seqs) THEN <<>> ELSE seqs[k] \o Concat(seqs, k + 1)

\* The bytes writeStringData collects for one value: its UTF-8 text and a NUL.
StringBytes(value) == Append(ToStr(value), 0)

\* A mutant of StringLength: the NUL left out of the length.
StringLengthWithoutNul(encoded) == Len(encoded)

\* lengths.push(encoded.length + 1)
StringLength(encoded) == Len(encoded) + 1

\* A mutant of BlobNeeded: the blob chunk written whatever the payload.
BlobAlways(payload) == TRUE

BlobNeeded(payload) == Len(payload) > 0

writeStringData(w, values) ==
    Bind([k \in 1..Len(values) |-> StringBytes(values[k])], LAMBDA pushed :
    Bind(Concat(pushed, 1), LAMBDA stringData :
    Bind(WriteWords(w, [k \in 1..Len(values) |->
                           LE32(StringLength(ToStr(values[k])))], 1), LAMBDA a :
        IF BlobNeeded(stringData)
        THEN writeBytes(write32(writeChunkOpen(writeChunkClose(a), COLUMN_BLOB_DATA, Null),
                                LE32(Len(stringData))), stringData)
        ELSE a)))

\* The elements of one list cell: the trimmed fields of its text.
ListElements(value) ==
    Bind(SliceInner(ToStr(value)), LAMBDA content :
        IF content = <<>> THEN <<>>
        ELSE Bind(Split(content), LAMBDA fields :
                [k \in 1..Len(fields) |-> Trim(fields[k])]))

ListElementWord(dataType, elem) ==
    IF dataType = DT_FLOAT_LIST THEN NumberToF32(ParseFloat(elem))
    ELSE Bind(ParseInt(elem), LAMBDA parsed : LE32(IF parsed.ok THEN parsed.n ELSE 0))

writeListData(w, dataType, values) ==
    Bind([k \in 1..Len(values) |-> ListElements(values[k])], LAMBDA elems :
    Bind(Concat([k \in 1..Len(values) |->
                    [j \in 1..Len(elems[k]) |->
                        ListElementWord(dataType, elems[k][j])]], 1), LAMBDA listData :
    Bind(WriteWords(w, [k \in 1..Len(values) |-> LE32(Len(elems[k]))], 1), LAMBDA a :
        IF BlobNeeded(listData)
        THEN WriteWords(write32(writeChunkOpen(writeChunkClose(a), COLUMN_BLOB_DATA, Null),
                                LE32(Len(listData) * 4)), listData, 1)
        ELSE a)))

ColumnBody(w, dataType, values) ==
    CASE dataType = DT_INTEGER ->
            WriteWords(w, [k \in 1..Len(values) |-> ToUint32Word(values[k])], 1)
      [] dataType = DT_FLOAT ->
            WriteWords(w, [k \in 1..Len(values) |->
                              NumberToF32(ParseFloatValue(values[k]))], 1)
      [] dataType = DT_STRING -> writeStringData(w, values)
      [] dataType = DT_INTEGER_LIST \/ dataType = DT_FLOAT_LIST ->
            writeListData(w, dataType, values)
      [] OTHER -> w

\* A mutant of writeColumnData: the chunk it opened left open.
writeColumnDataLeftOpen(w, dataType, values) ==
    ColumnBody(writeChunkOpen(w, COLUMN_VALUES, Null), dataType, values)

writeColumnData(w, dataType, values) ==
    writeChunkClose(ColumnBody(writeChunkOpen(w, COLUMN_VALUES, Null), dataType, values))

\* -------------------------------------------------------------- CDBReader
\* A read returns a record with err = "" or the error thrown, and pos, the
\* cursor after it.

Huge == 1073741823

\* A uint32 used as a size or a count; one of 2^31 or more is past the end
\* of every input of the model, as is Huge.
SizeOf(w) == IF IsSmall(w) THEN Min(U32(w), Huge) ELSE Huge

WordAt(data, pos) == SubSeq(data, pos + 1, pos + 4)

read32(data, pos) ==
    IF pos + 4 > Len(data)
    THEN [err |-> "ReadPastEnd", pos |-> pos, value |-> <<0, 0, 0, 0>>]
    ELSE [err |-> "", pos |-> pos + 4, value |-> WordAt(data, pos)]

readBytes(data, pos, length) ==
    IF pos + length > Len(data)
    THEN [err |-> "ReadPastEnd", pos |-> pos, value |-> <<>>]
    ELSE IF length < 0
    THEN [err |-> "RangeError", pos |-> pos, value |-> <<>>]
    ELSE [err |-> "", pos |-> pos + length, value |-> SubSeq(data, pos + 1, pos + length)]

\* A mutant of readPadding: no byte skipped.
readPaddingNone(pos) == pos

readPadding(pos) == pos + Padding(pos)

\* new TextDecoder().decode(bytes), for bytes that are well-formed UTF-8: the
\* text they encode, without the byte order mark EF BB BF it starts with
\* (the decoder is made with ignoreBOM false).
TextDecode(bytes) ==
    IF Len(bytes) >= 3 /\ SubSeq(bytes, 1, 3) = <<239, 187, 191>>
    THEN SubSeq(bytes, 4, Len(bytes)) ELSE bytes

NoHeader ==
    [err |-> "", pos |-> 0, chunkSize |-> 0, chunkType |-> <<0, 0, 0, 0>>,
     description |-> Null]

readChunkHeader(data, pos) ==
    LET fail(e) == [NoHeader EXCEPT !.err = e]
    IN  Bind(read32(data, pos), LAMBDA r1 :
        IF r1.err # "" THEN fail(r1.err) ELSE
        Bind(read32(data, r1.pos), LAMBDA r2 :
        IF r2.err # "" THEN fail(r2.err) ELSE
        Bind(read32(data, r2.pos), LAMBDA r3 :
        IF r3.err # "" THEN fail(r3.err) ELSE
        Bind(read32(data, r3.pos), LAMBDA r4 :
        IF r4.err # "" THEN fail(r4.err) ELSE
        Bind(read32(data, r4.pos), LAMBDA r5 :
        IF r5.err # "" THEN fail(r5.err) ELSE
        LET hasDescription == r5.value # <<0, 0, 0, 0>> IN
        Bind(read32(data, r5.pos), LAMBDA r6 :
        IF hasDescription /\ r6.err # "" THEN fail(r6.err) ELSE
        Bind(readBytes(data, r6.pos, SizeOf(r6.value) - 1), LAMBDA r7 :
        IF hasDescription /\ r7.err # "" THEN fail(r7.err) ELSE
        Bind(read32(data, readPadding(IF hasDescription THEN r7.pos + 1 ELSE r5.pos)),
             LAMBDA r8 :
        IF r8.err # "" THEN fail(r8.err)
        ELSE [err |-> "", pos |-> r8.pos, chunkSize |-> SizeOf(r2.value),
              chunkType |-> r3.value,
              description |-> IF hasDescription THEN TextDecode(r7.value) ELSE Null]))))))))

\* A child of a container: children[chunk.type] = chunk.value.  has = FALSE
\* is the undefined value of a chunk that is itself a container.
Child(type, has, value) == [type |-> type, has |-> has, value |-> value]

Missing == [type |-> <<0, 0, 0, 0>>, has |-> FALSE, value |-> 0]

RECURSIVE Lookup(_, _, _)
Lookup(children, type, k) ==
    IF k = 0 THEN Missing
    ELSE IF children[k].type = LE32(type) THEN children[k]
    ELSE Lookup(children, type, k - 1)

ChildOf(children, type) == Lookup(children, type, Len(children))

\* What readChunk returns: a leaf {type, value} (isContainer = FALSE) or a
\* container {type, header, children}.
Result(err, pos, type, isContainer, value, description, children) ==
    [err |-> err, pos |-> pos, type |-> type, isContainer |-> isContainer,
     value |-> value, description |-> description, children |-> children]

Failure(err) == Result(err, 0, <<0, 0, 0, 0>>, FALSE, 0, Null, <<>>)

RECURSIVE ReadWords(_, _, _, _)
ReadWords(data, pos, n, acc) ==
    IF n = 0 THEN [err |-> "", pos |-> pos, value |-> acc]
    ELSE Bind(read32(data, pos), LAMBDA r :
            IF r.err # "" THEN [err |-> r.err, pos |-> pos, value |-> acc]
            ELSE ReadWords(data, r.pos, n - 1, Append(acc, r.value)))

\* The iterations of `for (i = 0; i < dataBytes / 4; i++)`.
WordCount(dataBytes) == IF dataBytes <= 0 THEN 0 ELSE (dataBytes + 3) \div 4

IsKnownType(t) ==
    t \in {LE32(k) : k \in {ROW_COUNT, TABLE_ID, TABLE_FLAGS, DATABASE_FLAGS,
                            COLUMN_INDEX, COLUMN_DATA_TYPE, COLUMN_VALUES,
                            COLUMN_BLOB_DATA, DATABASE_TABLES, COLUMN_DEFINITIONS,
                            WRAPPER, TABLE, COLUMN}}

\* --------------------------------------------- CDBReader: column conversion

RECURSIVE parseStringsFrom(_, _, _, _, _)
parseStringsFrom(sizedData, lengths, k, currentOffset, acc) ==
    IF k > Len(lengths) THEN acc
    ELSE Bind(SizeOf(lengths[k]), LAMBDA stringLength :
            parseStringsFrom(sizedData, lengths, k + 1,
                Min(currentOffset + stringLength, Huge),
                Append(acc, StrValue(TextDecode(Subarray(sizedData, currentOffset,
                                                currentOffset + stringLength - 1))))))

parseStrings(sizedData, lengths) == parseStringsFrom(sizedData, lengths, 1, 4, <<>>)

HasDot(s) == \E i \in 1..Len(s) : s[i] = 46

\* value.toFixed(6).replace(/(\.\d*?)0+$/, '$1').replace(/\.$/, ''), then
\* '.0' for a whole number in a list of more than one element.  A float32
\* that is no multiple of 10^-6 is outside the model: its text is "?".
FormatFloat(v, count) ==
    IF v.t = "nan" THEN <<78, 97, 78>>
    ELSE IF v.t # "num" THEN <<63>>
    ELSE Bind(StripZeros(ToFixed6(v)), LAMBDA noZeros :
         Bind(IF noZeros[Len(noZeros)] = 46
              THEN SubSeq(noZeros, 1, Len(noZeros) - 1) ELSE noZeros, LAMBDA noDot :
            IF ~HasDot(noDot) /\ count > 1 THEN noDot \o <<46, 48>> ELSE noDot))

ReadListValue(dataType, word, count) ==
    IF dataType = DT_INTEGER_LIST THEN IntToStr(ToInt32(word))
    ELSE FormatFloat(F32ToNumber(word), count)

\* values.join(',')
RECURSIVE Join(_, _)
Join(texts, k) ==
    IF k > Len(texts) THEN <<>>
    ELSE IF k = Len(texts) THEN texts[k]
    ELSE texts[k] \o <<44>> \o Join(texts, k + 1)

\* One row of parseNumericLists: count values read at currentOffset; a read
\* past the blob is DataView's RangeError.
RECURSIVE parseListsFrom(_, _, _, _, _, _)
parseListsFrom(dataType, sizedData, counts, k, currentOffset, acc) ==
    IF k > Len(counts) THEN [err |-> "", data |-> acc]
    ELSE Bind(SizeOf(counts[k]), LAMBDA count :
            IF count > 0 /\ count > (Len(sizedData) - currentOffset) \div 4
            THEN [err |-> "RangeError", data |-> acc]
            ELSE parseListsFrom(dataType, sizedData, counts, k + 1,
                   currentOffset + 4 * count,
                   Append(acc, StrValue(<<40>> \o
                       Join([j \in 1..count |->
                               ReadListValue(dataType,
                                   WordAt(sizedData, currentOffset + 4 * (j - 1)), count)], 1)
                       \o <<41>>))))

parseNumericLists(dataType, sizedData, counts) ==
    parseListsFrom(dataType, sizedData, counts, 1, 4, <<>>)

\* The data types convertColumnData has a case for.
SupportedTypes == {DT_INTEGER, DT_FLOAT, DT_STRING, DT_INTEGER_LIST, DT_FLOAT_LIST}

IsSupportedType(word) == word \in {LE32(t) : t \in SupportedTypes}

convertColumnData(children) ==
    Bind(ChildOf(children, COLUMN_DATA_TYPE), LAMBDA dataType :
    Bind(ChildOf(children, COLUMN_VALUES), LAMBDA rawData :
    Bind(ChildOf(children, COLUMN_BLOB_DATA), LAMBDA blob :
        LET sizedData == IF blob.has THEN blob.value ELSE <<0, 0, 0, 0>>
            t == U32(dataType.value)
        IN  IF ~dataType.has \/ ~IsSupportedType(dataType.value)
            THEN [err |-> "UnknownDataType", data |-> <<>>]
            ELSE IF ~rawData.has
            THEN [err |-> "TypeError", data |-> <<>>]
            ELSE CASE t = DT_INTEGER ->
                        [err |-> "",
                         data |-> [k \in 1..Len(rawData.value) |->
                                      IntValue(ToInt32(rawData.value[k]))]]
                   [] t = DT_FLOAT ->
                        [err |-> "",
                         data |-> [k \in 1..Len(rawData.value) |->
                                      F32ToNumber(rawData.value[k])]]
                   [] t = DT_STRING ->
                        [err |-> "", data |-> parseStrings(sizedData, rawData.value)]
                   [] OTHER -> parseNumericLists(t, sizedData, rawData.value))))

\* ------------------------------------------------- CDBReader: readChunk

RECURSIVE ReadChunk(_, _)
RECURSIVE ReadChildren(_, _, _, _)
RECURSIVE ReadItems(_, _, _, _, _)

\* The while loop of a container: it stops at chunkEndPos, or when fewer
\* than 20 bytes are left of the chunk.
ReadChildren(data, pos, chunkEndPos, children) ==
    IF pos >= chunkEndPos \/ chunkEndPos - pos < 20
    THEN [err |-> "", pos |-> pos, children |-> children]
    ELSE Bind(ReadChunk(data, pos), LAMBDA chunk :
            IF chunk.err # ""
            THEN [err |-> chunk.err, pos |-> pos, children |-> children]
            ELSE ReadChildren(data, chunk.pos, chunkEndPos,
                    Append(children,
                           Child(chunk.type, ~chunk.isContainer, chunk.value))))

\* The child at a place, when it is of the kind expected there.
ChildAt(children, k, kind) ==
    IF k <= Len(children) /\ children[k].type = LE32(kind) THEN children[k] ELSE Missing

\* A mutant of TableItem: the children taken by place, in the encoder's order.
TableItemInOrder(chunk) ==
    [name |-> chunk.description,
     rowCount |-> ChildAt(chunk.children, 2, ROW_COUNT),
     columns |-> ChildAt(chunk.children, 4, COLUMN_DEFINITIONS),
     tableId |-> ChildAt(chunk.children, 1, TABLE_ID),
     tableFlags |-> ChildAt(chunk.children, 3, TABLE_FLAGS)]

\* The item of DATABASE_TABLES: a table object read off a container chunk.
TableItem(chunk) ==
    [name |-> chunk.description,
     rowCount |-> ChildOf(chunk.children, ROW_COUNT),
     columns |-> ChildOf(chunk.children, COLUMN_DEFINITIONS),
     tableId |-> ChildOf(chunk.children, TABLE_ID),
     tableFlags |-> ChildOf(chunk.children, TABLE_FLAGS)]

\* The item of COLUMN_DEFINITIONS: a column object with its converted data.
ColumnItem(chunk, data) ==
    [name |-> chunk.description,
     type |-> ChildOf(chunk.children, COLUMN_DATA_TYPE),
     data |-> data,
     columnIndex |-> ChildOf(chunk.children, COLUMN_INDEX)]

\* The loop of readArray, for the items of kind (tables or columns).
ReadItems(data, pos, count, kind, items) ==
    IF count = 0 THEN [err |-> "", pos |-> pos, items |-> items]
    ELSE Bind(ReadChunk(data, pos), LAMBDA chunk :
            IF chunk.err # "" THEN [err |-> chunk.err, pos |-> pos, items |-> items]
            ELSE IF ~chunk.isContainer
            THEN [err |-> "TypeError", pos |-> pos, items |-> items]
            ELSE IF kind = DATABASE_TABLES
            THEN ReadItems(data, chunk.pos, count - 1, kind,
                           Append(items, TableItem(chunk)))
            ELSE Bind(convertColumnData(chunk.children), LAMBDA conv :
                    IF conv.err # ""
                    THEN [err |-> conv.err, pos |-> pos, items |-> items]
                    ELSE ReadItems(data, chunk.pos, count - 1, kind,
                                   Append(items, ColumnItem(chunk, conv.data)))))

readArray(data, pos, kind) ==
    LET fail(e) == [err |-> e, pos |-> pos, items |-> <<>>]
    IN  Bind(read32(data, pos), LAMBDA r1 :
        IF r1.err # "" THEN fail(r1.err) ELSE
        Bind(read32(data, r1.pos), LAMBDA r2 :
        IF r2.err # "" THEN fail(r2.err) ELSE
        Bind(ReadItems(data, r2.pos, SizeOf(r2.value), kind, <<>>), LAMBDA body :
        IF body.err # "" THEN body ELSE
        Bind(read32(data, body.pos), LAMBDA r3 :
        IF r3.err # "" THEN fail(r3.err)
        ELSE [err |-> "", pos |-> r3.pos, items |-> body.items]))))

\* The trailer of readChunk: readPadding(), read32() of the end marker.
Finish(data, res) ==
    IF res.err # "" THEN res
    ELSE Bind(read32(data, readPadding(res.pos)), LAMBDA r :
            IF r.err # "" THEN Failure(r.err) ELSE [res EXCEPT !.pos = r.pos])

ReadChunk(data, chunkStartPos) ==
    Bind(readChunkHeader(data, chunkStartPos), LAMBDA header :
        LET chunkEndPos == Min(chunkStartPos + header.chunkSize, Huge)
            type == header.chunkType
            t == U32(type)
            leaf(r) == Result(r.err, r.pos, type, FALSE, r.value, header.description, <<>>)
            list(a) == Result(a.err, a.pos, type, FALSE, a.items, header.description, <<>>)
            container(c) ==
                Result(c.err, c.pos, type, TRUE, 0, header.description, c.children)
        IN  IF header.err # "" THEN Failure(header.err)
            ELSE IF ~IsKnownType(type) THEN Failure("UnknownChunkType")
            ELSE Finish(data,
                   IF t \in {ROW_COUNT, TABLE_ID, TABLE_FLAGS, DATABASE_FLAGS,
                             COLUMN_INDEX, COLUMN_DATA_TYPE}
                   THEN leaf(read32(data, header.pos))
                   ELSE IF t = COLUMN_VALUES
                   THEN leaf(ReadWords(data, header.pos,
                                       WordCount(chunkEndPos - header.pos - 4), <<>>))
                   ELSE IF t = COLUMN_BLOB_DATA
                   THEN leaf(readBytes(data, header.pos, chunkEndPos - header.pos - 4))
                   ELSE IF t \in {DATABASE_TABLES, COLUMN_DEFINITIONS}
                   THEN list(readArray(data, header.pos, t))
                   ELSE container(ReadChildren(data, header.pos, chunkEndPos, <<>>))))

\* ----------------------------------------------------- compression framing
\* pako.deflate and pako.inflate are modelled by the zlib format itself: the
\* stream Deflate writes is the zlib header, one stored block and the
\* Adler-32 of the data, and Inflate accepts exactly such streams.

\* The sum of s[k] * (IF weighted THEN n - k + 1 ELSE 1) for k in lo..hi, by halves.
RECURSIVE ByteSum(_, _, _, _)
ByteSum(s, lo, hi, weighted) ==
    IF lo > hi THEN 0
    ELSE IF lo = hi THEN s[lo] * (IF weighted THEN Len(s) - lo + 1 ELSE 1)
    ELSE LET mid == (lo + hi) \div 2
         IN  ByteSum(s, lo, mid, weighted) + ByteSum(s, mid + 1, hi, weighted)

\* Adler-32, big-endian: a = 1 + the sum of the bytes and b = the sum of the
\* successive values of a, both modulo 65521.
Adler32(s) ==
    LET a == (1 + ByteSum(s, 1, Len(s), FALSE)) % 65521
        b == (Len(s) + ByteSum(s, 1, Len(s), TRUE)) % 65521
    IN  << b \div 256, b % 256, a \div 256, a % 256 >>

LE16(n) == << n % 256, (n \div 256) % 256 >>

Deflate(s) ==
    <<120, 156, 1>> \o LE16(Len(s)) \o LE16(65535 - Len(s)) \o s \o Adler32(s)

Inflate(z) ==
    LET len == z[4] + 256 * z[5]
    IN  IF Len(z) >= 11 /\ SubSeq(z, 1, 3) = <<120, 156, 1>>
           /\ Len(z) = 11 + len /\ SubSeq(z, 6, 7) = LE16(65535 - len)
           /\ SubSeq(z, 8 + len, 11 + len) = Adler32(SubSeq(z, 8, 7 + len))
        THEN [err |-> "", data |-> SubSeq(z, 8, 7 + len)]
        ELSE [err |-> "InflateError", data |-> <<>>]

compressCDB(uncompressedData) ==
    Bind(Deflate(uncompressedData), LAMBDA compressed :
        COMPRESSED_MAGIC \o LE32(Len(uncompressedData)) \o LE32(Len(compressed))
            \o compressed)

\* A mutant of CompressedSizeOffset: the size read from the word before.
UncompressedSizeOffset == 4

CompressedSizeOffset == 8

decompressCDB(arrayBuffer) ==
    IF Len(arrayBuffer) < 4 THEN [err |-> "RangeError", data |-> <<>>]
    ELSE IF WordAt(arrayBuffer, 0) # COMPRESSED_MAGIC
    THEN [err |-> "", data |-> arrayBuffer]
    ELSE IF Len(arrayBuffer) < 12 THEN [err |-> "RangeError", data |-> <<>>]
    ELSE Bind(SizeOf(WordAt(arrayBuffer, CompressedSizeOffset)), LAMBDA compressedSize :
            IF 12 + compressedSize > Len(arrayBuffer)
            THEN [err |-> "RangeError", data |-> <<>>]
            ELSE Inflate(SubSeq(arrayBuffer, 13, 12 + compressedSize)))

\* -------------------------------------------------------- metadata codec

\* `col.type & 0xF`
Low4(n) == n % 16

\* encodedValue of cdbToSQLite
Pack(tableId, columnIndex, dataType) ==
    (tableId * 256 + columnIndex) * 16 + Low4(dataType)

\* `encodedValue & 0xF`
UnpackDataType(encodedValue) == encodedValue % 16

\* A mutant of UnpackColumnIndex: the mask `& 0xFF` forgotten.
UnpackColumnIndexUnmasked(encodedValue) == encodedValue \div 16

\* `Math.floor(encodedValue / 16) & 0xFF`
UnpackColumnIndex(encodedValue) == (encodedValue \div 16) % 256

\* The decoding formula of CDB_FORMAT.md: Math.floor(encoded_value / (256 * 16));
\* sqliteToCDB takes the table identifier from DB_STRUCTURE instead.
UnpackTableId(encodedValue) == encodedValue \div (256 * 16)

BaseType(dataType) ==
    CASE dataType = DT_FLOAT -> <<82, 69, 65, 76>>
      [] dataType \in {DT_STRING, DT_INTEGER_LIST, DT_FLOAT_LIST} -> <<84, 69, 88, 84>>
      [] OTHER -> <<73, 78, 84, 69, 71, 69, 82>>

\* `${baseType} ${encodedValue}`; an undefined columnIndex makes the number NaN.
Annotation(tableId, columnIndex, dataType) ==
    BaseType(U32(dataType.value)) \o <<32>> \o
        (IF columnIndex.has
         THEN NatToStr(Pack(U32(tableId.value), U32(columnIndex.value),
                            U32(dataType.value)))
         ELSE <<78, 97, 78>>)

\* colType.match(/\s+(\d+)/): the digits after the first run of white space
\* that digits follow; ok = FALSE when nothing matches (match is null).
RECURSIVE MatchFrom(_, _)
MatchFrom(s, i) ==
    IF i > Len(s) THEN [ok |-> FALSE, digits |-> <<>>]
    ELSE IF IsSpace(s[i])
    THEN Bind(SkipSpaces(s, i), LAMBDA d :
         Bind(DigitRunEnd(s, d), LAMBDA e :
            IF e > d THEN [ok |-> TRUE, digits |-> SubSeq(s, d, e - 1)]
            ELSE MatchFrom(s, d)))
    ELSE MatchFrom(s, i + 1)

MatchEncoded(colType) == MatchFrom(colType, 1)

\* ------------------------------------------------------------ SQL store
\* The database of sql.js, as far as the converter uses it: DB_STRUCTURE as
\* its rows [name, id], and the other tables in creation order, each with
\* its columns [name, type] in schema order and its rows.

EmptyDb == [structure |-> <<>>, tables |-> <<>>]

\* The text of a name in a template string: `"${table.name}"`.
NameText(description) == IF description = Null THEN <<110, 117, 108, 108>> ELSE description

NameValue(description) == IF description = Null THEN NullValue ELSE StrValue(description)

\* What a bound parameter is stored as: SQLite has no NaN, it stores NULL.
SqlStore(v) == IF v.t = "nan" THEN NullValue ELSE v

HasTable(db, name) == \E k \in 1..Len(db.tables) : db.tables[k].name = name

TableNamed(db, name) ==
    db.tables[CHOOSE k \in 1..Len(db.tables) : db.tables[k].name = name]

Distinct(names) ==
    \A i, j \in 1..Len(names) : i # j => names[i] # names[j]

DbStructureName == <<68, 66, 95, 83, 84, 82, 85, 67, 84, 85, 82, 69>>

\* cdbToSQLite ---------------------------------------------------------

\* The rows of a table: row r binds col.data[r] of every column, in column
\* order; a column with fewer values binds undefined, which sql.js refuses.
RowsOf(columns, rowCount) ==
    [r \in 1..rowCount |-> [c \in 1..Len(columns) |-> SqlStore(columns[c].data[r])]]

ColumnDefs(table) ==
    [c \in 1..Len(table.columns.value) |->
        [name |-> NameText(table.columns.value[c].name),
         type |-> Annotation(table.tableId, table.columns.value[c].columnIndex,
                             table.columns.value[c].type)]]

RECURSIVE BuildTables(_, _, _)
BuildTables(tables, k, db) ==
    IF k > Len(tables) THEN [err |-> "", db |-> db]
    ELSE LET table == tables[k]
             columns == table.columns.value
         IN  IF ~table.tableId.has THEN [err |-> "BindError", db |-> db]
             ELSE IF ~table.columns.has THEN [err |-> "TypeError", db |-> db]
             ELSE
             Bind(IF table.rowCount.has THEN SizeOf(table.rowCount.value) ELSE 0,
                  LAMBDA rowCount :
             Bind(ColumnDefs(table), LAMBDA defs :
             Bind(NameText(table.name), LAMBDA tableName :
                IF Len(columns) = 0
                      \/ ~Distinct([c \in 1..Len(defs) |-> defs[c].name])
                      \/ HasTable(db, tableName)
                      \/ tableName = DbStructureName
                THEN [err |-> "SqlError", db |-> db]
                ELSE IF \E c \in 1..Len(columns) : Len(columns[c].data) < rowCount
                THEN [err |-> "BindError", db |-> db]
                ELSE BuildTables(tables, k + 1,
                       [structure |-> Append(db.structure,
                           [name |-> NameValue(table.name),
                            id |-> IntValue(U32(table.tableId.value))]),
                        tables |-> Append(db.tables,
                           [name |-> tableName, cols |-> defs,
                            rows |-> RowsOf(columns, rowCount)])]))))

cdbToSQLite(cdbData) ==
    LET fail(e) == [err |-> e, db |-> EmptyDb]
    IN  Bind(decompressCDB(cdbData), LAMBDA decompressedData :
        IF decompressedData.err # "" THEN fail(decompressedData.err) ELSE
        Bind(ReadChunk(decompressedData.data, 0), LAMBDA wrapperChunk :
        IF wrapperChunk.err # "" THEN fail(wrapperChunk.err) ELSE
        Bind(ChildOf(wrapperChunk.children, DATABASE_TABLES), LAMBDA tables :
        IF ~wrapperChunk.isContainer \/ ~tables.has THEN fail("TypeError") ELSE
        Bind(BuildTables(tables.value, 1, EmptyDb), LAMBDA built :
        IF built.err # "" THEN fail(built.err) ELSE built))))

\* sqliteToCDB ---------------------------------------------------------

\* SELECT ... FROM DB_STRUCTURE ORDER BY ID: NULL first, then ascending;
\* rows with equal ID keep their order.
IdKey(row) == IF row.id.t = "null" THEN -2147483647 ELSE row.id.n

RECURSIVE InsertSorted(_, _)
InsertSorted(sorted, row) ==
    IF sorted = <<>> THEN <<row>>
    ELSE IF IdKey(sorted[Len(sorted)]) <= IdKey(row) THEN Append(sorted, row)
    ELSE Append(InsertSorted(SubSeq(sorted, 1, Len(sorted) - 1), row),
                sorted[Len(sorted)])

RECURSIVE OrderById(_, _, _)
OrderById(rows, k, acc) ==
    IF k > Len(rows) THEN acc ELSE OrderById(rows, k + 1, InsertSorted(acc, rows[k]))

\* An own property key that is an array index: Object.keys lists these
\* first, in ascending numeric order, then the other keys as inserted.
IsArrayIndex(name) ==
    /\ Len(name) >= 1 /\ Len(name) <= 9
    /\ \A i \in 1..Len(name) : IsDigit(name[i])
    /\ (Len(name) = 1 \/ name[1] # 48)

IndexOf(name) == DigitsValue(name, 1, Len(name) + 1, 0)

RECURSIVE InsertKey(_, _)
InsertKey(sorted, name) ==
    IF sorted = <<>> THEN <<name>>
    ELSE IF IndexOf(sorted[Len(sorted)]) <= IndexOf(name) THEN Append(sorted, name)
    ELSE Append(InsertKey(SubSeq(sorted, 1, Len(sorted) - 1), name), sorted[Len(sorted)])

RECURSIVE IndexKeys(_, _, _)
IndexKeys(names, k, acc) ==
    IF k > Len(names) THEN acc
    ELSE IndexKeys(names, k + 1,
                   IF IsArrayIndex(names[k]) THEN InsertKey(acc, names[k]) ELSE acc)

RECURSIVE OtherKeys(_, _)
OtherKeys(names, k) ==
    IF k > Len(names) THEN <<>>
    ELSE (IF IsArrayIndex(names[k]) THEN <<>> ELSE <<names[k]>>) \o OtherKeys(names, k + 1)

\* Object.keys(columnInfo), the columns entered in schema order.
ObjectKeys(names) == IndexKeys(names, 1, <<>>) \o OtherKeys(names, 1)

\* columnInfo[colName]
InfoOf(cols, name) ==
    Bind(ParseInt(MatchEncoded(
            cols[CHOOSE c \in 1..Len(cols) : cols[c].name = name].type).digits).n,
         LAMBDA encodedValue :
            [cdbDataType |-> UnpackDataType(encodedValue),
             cdbColumnIndex |-> UnpackColumnIndex(encodedValue)])

\* columnData[colIdx]: the cells at position colIdx of every row.
ColumnCells(rows, colIdx) == [r \in 1..Len(rows) |-> rows[r][colIdx]]

\* TABLE_FLAGS_BY_ID[tableInfo.id], undefined for an identifier not in the map
\* (write32 then writes 0).
TableFlagsWord(id) ==
    Bind(TABLE_FLAGS_BY_ID, LAMBDA flags :
        IF id.t = "num" /\ id.f = 0 /\ id.n \in DOMAIN flags
        THEN LE32(flags[id.n]) ELSE <<0, 0, 0, 0>>)

Leaf(w, chunkType, description, word) ==
    writeChunkClose(write32(writeChunkOpen(w, chunkType, description), word))

\* The description a table or a column is written with.
DescriptionOf(v) == IF v.t = "null" THEN Null ELSE ToStr(v)

\* The name the k-th COLUMN chunk is written under, and the position in the
\* rows its cells are taken from.
ColumnName(columnNames, k) == columnNames[k]

CellIndex(columnNames, cols, k) == k

WriteColumn(w, columnNames, cols, rows, k) ==
    Bind(ColumnName(columnNames, k), LAMBDA columnName :
    Bind(InfoOf(cols, columnName), LAMBDA info :
        LET w1 == writeChunkOpen(w, COLUMN, columnName)
            w2 == Leaf(w1, COLUMN_INDEX, Null, LE32(info.cdbColumnIndex))
            w3 == Leaf(w2, COLUMN_DATA_TYPE, columnName, LE32(info.cdbDataType))
            w4 == writeColumnData(w3, info.cdbDataType,
                                  ColumnCells(rows, CellIndex(columnNames, cols, k)))
        IN  writeChunkClose(w4)))

RECURSIVE WriteColumns(_, _, _, _, _)
WriteColumns(w, columnNames, cols, rows, k) ==
    IF w.fault \/ k > Len(columnNames) THEN w
    ELSE WriteColumns(WriteColumn(w, columnNames, cols, rows, k),
                      columnNames, cols, rows, k + 1)

\* The column names in the order PRAGMA table_info returns them.
SchemaNames(table) == [i \in 1..Len(table.cols) |-> table.cols[i].name]

\* A mutant of WriteTable: ROW_COUNT written before TABLE_ID.
WriteTableCountFirst(w, tableInfo, table) ==
    Bind(ObjectKeys(SchemaNames(table)), LAMBDA columnNames :
        LET w1 == writeChunkOpen(w, TABLE, DescriptionOf(tableInfo.name))
            w2 == Leaf(w1, ROW_COUNT, Null, LE32(Len(table.rows)))
            w3 == Leaf(w2, TABLE_ID, Null, ToUint32Word(tableInfo.id))
            w4 == Leaf(w3, TABLE_FLAGS, Null, TableFlagsWord(tableInfo.id))
            w5 == write32(write32(writeChunkOpen(w4, COLUMN_DEFINITIONS, Null),
                                  ARRAY_BEGIN), LE32(Len(columnNames)))
            w6 == WriteColumns(w5, columnNames, table.cols, table.rows, 1)
        IN  writeChunkClose(writeChunkClose(write32(w6, ARRAY_END))))

WriteTable(w, tableInfo, table) ==
    Bind(ObjectKeys(SchemaNames(table)), LAMBDA columnNames :
        LET w1 == writeChunkOpen(w, TABLE, DescriptionOf(tableInfo.name))
            w2 == Leaf(w1, TABLE_ID, Null, ToUint32Word(tableInfo.id))
            w3 == Leaf(w2, ROW_COUNT, Null, LE32(Len(table.rows)))
            w4 == Leaf(w3, TABLE_FLAGS, Null, TableFlagsWord(tableInfo.id))
            w5 == write32(write32(writeChunkOpen(w4, COLUMN_DEFINITIONS, Null),
                                  ARRAY_BEGIN), LE32(Len(columnNames)))
            w6 == WriteColumns(w5, columnNames, table.cols, table.rows, 1)
        IN  writeChunkClose(writeChunkClose(write32(w6, ARRAY_END))))

\* PRAGMA table_info finds no table (schemaResult[0] is undefined), or a
\* column type has no encoded value (match is null).
TableFails(db, tableInfo) ==
    \E name \in {ToStr(tableInfo.name)} :
        \/ ~HasTable(db, name)
        \/ \E table \in {TableNamed(db, name)} :
              \E c \in 1..Len(table.cols) : ~MatchEncoded(table.cols[c].type).ok

\* A mutant of TablesToWrite: the ORDER BY forgotten.
TablesUnordered(db) == db.structure

\* The tables sqliteToCDB writes, in the order it writes them.
TablesToWrite(db) == OrderById(db.structure, 1, <<>>)

RECURSIVE WriteTables(_, _, _, _)
WriteTables(w, db, tables, k) ==
    IF w.fault \/ k > Len(tables) THEN [err |-> "", writer |-> w]
    ELSE IF TableFails(db, tables[k]) THEN [err |-> "TypeError", writer |-> w]
    ELSE WriteTables(WriteTable(w, tables[k], TableNamed(db, ToStr(tables[k].name))),
                     db, tables, k + 1)

\* db.export().length: a database file is whole pages, one for the schema
\* and at least one for DB_STRUCTURE and for every table.
PageSize == 4096
ExportLength(db) == PageSize * (2 + Len(db.tables))

\* The writer of sqliteToCDB just before getData, for a buffer of
\* estimatedSize bytes (db.export().length in the code).
EncodeWriter(db, estimatedSize) ==
    IF Len(db.structure) = 0 THEN [err |-> "NoDbStructure", writer |-> NewWriter(0)]
    ELSE Bind(TablesToWrite(db), LAMBDA tables :
            LET w1 == writeChunkOpen(NewWriter(estimatedSize), WRAPPER,
                        <<99, 121, 97, 110, 105, 100, 101, 32,
                          100, 97, 116, 97, 98, 97, 115, 101>>)
                w2 == Leaf(w1, DATABASE_FLAGS, Null, LE32(DATABASE_FLAGS_VALUE))
                w3 == write32(write32(writeChunkOpen(w2, DATABASE_TABLES, Null),
                                      ARRAY_BEGIN), LE32(Len(tables)))
            IN  Bind(WriteTables(w3, db, tables, 1), LAMBDA body :
                    IF body.err # "" THEN body
                    ELSE [err |-> "",
                          writer |-> writeChunkClose(writeChunkClose(
                                        write32(body.writer, ARRAY_END)))]))

sqliteToCDB(db, estimatedSize) ==
    Bind(EncodeWriter(db, estimatedSize), LAMBDA enc :
        IF enc.err # "" THEN [err |-> enc.err, data |-> <<>>]
        ELSE [err |-> "", data |-> compressCDB(getData(enc.writer))])

\* ------------------------------------------------------- the CDB format
\* A CDB file as CDB_FORMAT.md lays it out, written chunk by chunk with the
\* size of each chunk known from its content: the inputs of the decoder.

PadTo4(bytes) == bytes \o Zeros(Padding(Len(bytes)))

FormatChunk(chunkType, description, body) ==
    Bind(PadTo4(LE32(chunkType) \o LE32(0) \o
                (IF description = Null THEN LE32(0)
                 ELSE LE32(1) \o LE32(Len(description) + 1) \o description \o <<0>>)),
         LAMBDA header :
    Bind(PadTo4(body), LAMBDA data :
        CHUNK_BEGIN \o LE32(8 + Len(header) + 4 + Len(data) + 4) \o header
            \o CHUNK_SEPARATOR \o data \o CHUNK_END))

FormatArray(items) == ARRAY_BEGIN \o LE32(Len(items)) \o Concat(items, 1) \o ARRAY_END

\* One bit per row, bit 0 of byte 0 being row 0: ceil(N/8) bytes.
PackBits(bits) ==
    [b \in 1..((Len(bits) + 7) \div 8) |->
        LET bit(i) == IF 8 * (b - 1) + i + 1 <= Len(bits) /\ bits[8 * (b - 1) + i + 1]
                      THEN Pow2(i) ELSE 0
        IN  bit(0) + bit(1) + bit(2) + bit(3) + bit(4) + bit(5) + bit(6) + bit(7)]

\* The COLUMN_VALUES body of a column of the format, from its cells: numbers
\* (types 0, 4, 5), words (type 1), booleans (type 3), byte strings (type 2)
\* or sequences of words (types 10, 11).
FormatValues(dataType, cells) ==
    CASE dataType = DT_FLOAT -> Concat(cells, 1)
      [] dataType = DT_STRING ->
            Concat([k \in 1..Len(cells) |-> LE32(Len(cells[k]) + 1)], 1)
      [] dataType = DT_BOOLEAN -> PackBits(cells)
      [] dataType = DT_INTEGER_BYTE -> [k \in 1..Len(cells) |-> cells[k] % 256]
      [] dataType = DT_INTEGER_SHORT -> Concat([k \in 1..Len(cells) |-> LE16(cells[k])], 1)
      [] dataType \in {DT_FLOAT_LIST, DT_INTEGER_LIST} ->
            Concat([k \in 1..Len(cells) |-> LE32(Len(cells[k]))], 1)
      [] OTHER -> Concat([k \in 1..Len(cells) |-> LE32(cells[k])], 1)

\* The packed data of a COLUMN_BLOB_DATA body, after its 4-byte size.
FormatPayload(dataType, cells) ==
    CASE dataType = DT_STRING -> Concat([k \in 1..Len(cells) |-> Append(cells[k], 0)], 1)
      [] dataType \in {DT_FLOAT_LIST, DT_INTEGER_LIST} ->
            Concat([k \in 1..Len(cells) |-> Concat(cells[k], 1)], 1)
      [] OTHER -> <<>>

FormatBlob(payload) ==
    FormatChunk(COLUMN_BLOB_DATA, Null, LE32(Len(payload)) \o payload)

\* A COLUMN chunk; a column without payload has no blob chunk, or (zeroBlob)
\* one that holds the size 0 alone.
FormatColumnBlob(col, zeroBlob) ==
    FormatChunk(COLUMN, col.name,
        FormatChunk(COLUMN_INDEX, Null, LE32(col.columnIndex))
        \o FormatChunk(COLUMN_DATA_TYPE, col.name, LE32(col.type))
        \o FormatChunk(COLUMN_VALUES, Null, FormatValues(col.type, col.cells))
        \o Bind(FormatPayload(col.type, col.cells), LAMBDA payload :
                IF payload # <<>> \/ zeroBlob THEN FormatBlob(payload) ELSE <<>>))

FormatColumn(col) == FormatColumnBlob(col, FALSE)

FormatTable(table) ==
    FormatChunk(TABLE, table.name,
        FormatChunk(TABLE_ID, Null, LE32(table.tableId))
        \o FormatChunk(ROW_COUNT, Null, LE32(table.rowCount))
        \o FormatChunk(TABLE_FLAGS, Null, LE32(table.tableFlags))
        \o FormatChunk(COLUMN_DEFINITIONS, Null,
              FormatArray([c \in 1..Len(table.columns) |-> FormatColumn(table.columns[c])])))

FormatFile(tables) ==
    FormatChunk(WRAPPER,
        <<99, 121, 97, 110, 105, 100, 101, 32, 100, 97, 116, 97, 98, 97, 115, 101>>,
        FormatChunk(DATABASE_FLAGS, Null, LE32(DATABASE_FLAGS_VALUE))
        \o FormatChunk(DATABASE_TABLES, Null,
              FormatArray([t \in 1..Len(tables) |-> FormatTable(tables[t])])))

\* ------------------------------------------------------------ the inputs
\* The CDB files the pipeline is run on: every file of the format with at
\* most MaxTables tables (distinct identifiers, in any order), MaxRows rows
\* and MaxCols columns per table, whose first column has any documented data
\* type, with letters or digits for column names.

TableIds == {3, 4}
RowCounts == 0..MaxRows
Namings == {"letters", "digits"}

RECURSIVE IdSequences(_)
IdSequences(n) ==
    IF n = 0 THEN {<<>>}
    ELSE IdSequences(n - 1) \cup
         {Append(s, id) : s \in {q \in IdSequences(n - 1) : Len(q) = n - 1},
                          id \in TableIds}

DistinctIdSequences == {s \in IdSequences(MaxTables) : Distinct(s)}

\* The data types of the columns after the first.
OtherTypes == {DT_STRING}

RECURSIVE Schemas(_)
Schemas(n) ==
    IF n = 1 THEN {<<t>> : t \in DocumentedTypes}
    ELSE Schemas(n - 1) \cup
         {Append(s, t) : s \in {q \in Schemas(n - 1) : Len(q) = n - 1}, t \in OtherTypes}

IntegerCells == <<0, 70000, -2>>
FloatCells == << <<0, 0, 0, 0>>, <<0, 0, 192, 63>>, <<0, 0, 128, 190>> >>
StringCells == << <<>>, <<104, 105>>, <<52, 50>> >>
BooleanCells == <<FALSE, TRUE, TRUE>>
ByteCells == <<0, 200, 7>>
ShortCells == <<0, 40000, 7>>
IntegerListCells == << <<>>, << <<7, 0, 0, 0>> >>,
                       << <<7, 0, 0, 0>>, <<253, 255, 255, 255>> >> >>
FloatListCells == << <<>>, << <<0, 0, 192, 63>> >>,
                     << <<0, 0, 192, 63>>, <<0, 0, 128, 190>> >> >>

CellsOf(dataType) ==
    CASE dataType = DT_FLOAT -> FloatCells
      [] dataType = DT_STRING -> StringCells
      [] dataType = DT_BOOLEAN -> BooleanCells
      [] dataType = DT_INTEGER_BYTE -> ByteCells
      [] dataType = DT_INTEGER_SHORT -> ShortCells
      [] dataType = DT_INTEGER_LIST -> IntegerListCells
      [] dataType = DT_FLOAT_LIST -> FloatListCells
      [] OTHER -> IntegerCells

\* The cell of row r of column c of the t-th table.
CellAt(dataType, t, c, r) == CellsOf(dataType)[((t + c + r) % 3) + 1]

\* Letters name the columns b, c, ...; digits name them 9, 8, ...
ColumnNameOf(naming, c) == IF naming = "letters" THEN <<97 + c>> ELSE <<58 - c>>

\* A column index is the column's position in the source schema, not its
\* place in the file.
ColumnIndexOf(c) == (5 * c) % 7

FlagsOf(id) ==
    Bind(TABLE_FLAGS_BY_ID, LAMBDA flags : IF id \in DOMAIN flags THEN flags[id] ELSE 1)

SourceTable(id, t, schema, naming, rowCount) ==
    [name |-> <<84, 48 + id>>, tableId |-> id, rowCount |-> rowCount,
     tableFlags |-> FlagsOf(id),
     columns |-> [c \in 1..Len(schema) |->
        [name |-> ColumnNameOf(naming, c), columnIndex |-> ColumnIndexOf(c),
         type |-> schema[c],
         cells |-> [r \in 1..rowCount |-> CellAt(schema[c], t, c, r)]]]]

SourceTables(ids, schema, naming, rowCount) ==
    [t \in 1..Len(ids) |-> SourceTable(ids[t], t, schema, naming, rowCount)]

\* The file as stored: the chunk stream, or its compressed form.
StoredFile(tables, compressed) ==
    Bind(FormatFile(tables), LAMBDA stream :
        IF compressed THEN compressCDB(stream) ELSE stream)

\* ------------------------------------------------------------ the machines
\* Ten machines share the module, each with its own specification: the
\* pipeline (Spec), the pipeline on files that depart from the layout the
\* encoder writes (VariantSpec), the row batches of cdbToSQLite (BatchSpec),
\* one column (ColumnSpec), the writer driven operation by operation
\* (WriterSpec), one chunk header read and written (HeaderSpec), the
\* compression framing (CompressSpec), the metadata integer (MetaSpec), the
\* SQL console (ConsoleSpec) and the file handler (HandlerSpec).  A machine
\* that a specification does not run stays
\* idle.

VARIABLES
    source,     \* pipeline: the tables of the file loaded, as the format describes them
    cdbData,    \* pipeline: the bytes of the file loaded
    db,         \* pipeline: the database cdbToSQLite returned
    encoded,    \* pipeline: the bytes sqliteToCDB returned
    stage,      \* pipeline: "loaded", "decoded", "encoded" or "failed"
    error,      \* pipeline: the error thrown, "" if none
    variant,    \* pipeline: how the file loaded departs from the encoder's layout
    batch,      \* the INSERT statements cdbToSQLite runs for one table
    column,     \* one column: its chunk, the values read off it, the chunks written
    writer,     \* the CDBWriter driven by WriterSpec
    observed,   \* what the driver of the writer saw: positions at open and close
    archive,    \* compression: a stream, its compressed form, what comes back
    meta,       \* the metadata integer and the triple it packs
    console,    \* the SQL console: its state, the database, the last result
    handler     \* the file handler: its state, the event loop, the page

vars == <<source, cdbData, db, encoded, stage, error, variant, batch, column, writer,
          observed, archive, meta, console, handler>>

pipelineVars == <<source, cdbData, db, encoded, stage, error, variant, batch, console,
                  handler>>

Idle == [stage |-> "idle"]

PipelineIdle ==
    /\ source = <<>> /\ cdbData = <<>> /\ db = EmptyDb /\ encoded = <<>>
    /\ stage = "idle" /\ error = "" /\ variant = Idle /\ batch = Idle
    /\ console = Idle /\ handler = Idle

\* ---------------------------------------------------------------- pipeline

Init ==
    /\ \E ids \in DistinctIdSequences, schema \in Schemas(MaxCols), naming \in Namings,
          rowCount \in RowCounts, compressed \in BOOLEAN :
        /\ source = SourceTables(ids, schema, naming, rowCount)
        /\ cdbData = StoredFile(source, compressed)
    /\ db = EmptyDb
    /\ encoded = <<>>
    /\ stage = "loaded"
    /\ error = ""
    /\ variant = Idle /\ batch = Idle /\ console = Idle /\ handler = Idle
    /\ column = Idle /\ writer = Idle /\ observed = Idle /\ archive = Idle /\ meta = Idle

\* db = cdbToSQLite(cdbData, SQL)
Decode ==
    /\ stage = "loaded"
    /\ \E r \in {cdbToSQLite(cdbData)} :
           /\ db' = r.db
           /\ error' = r.err
           /\ stage' = IF r.err = "" THEN "decoded" ELSE "failed"
    /\ UNCHANGED <<source, cdbData, encoded, variant, batch, console, handler, column,
                 writer, observed,
                 archive, meta>>

\* encoded = sqliteToCDB(db)
Encode ==
    /\ stage = "decoded"
    /\ \E r \in {sqliteToCDB(db, ExportLength(db))} :
           /\ encoded' = r.data
           /\ error' = r.err
           /\ stage' = IF r.err = "" THEN "encoded" ELSE "failed"
    /\ UNCHANGED <<source, cdbData, db, variant, batch, console, handler, column,
                 writer, observed,
                 archive, meta>>

Next == Decode \/ Encode

Spec == Init /\ [][Next]_vars

\* ------------------------------------------------------------- compression

PlainBytes == {0, 170, 255}

RECURSIVE PlainStreams(_)
PlainStreams(n) ==
    IF n = 0 THEN {<<>>}
    ELSE PlainStreams(n - 1) \cup
         {Append(s, b) : s \in {q \in PlainStreams(n - 1) : Len(q) = n - 1},
                         b \in PlainBytes}

CompressInit ==
    /\ PipelineIdle
    /\ column = Idle /\ writer = Idle /\ observed = Idle /\ meta = Idle
    /\ \E s \in PlainStreams(MaxPlain) :
          archive = [stage |-> "plain", plain |-> s, stored |-> <<>>,
                     restored |-> <<>>, err |-> ""]

\* stored = compressCDB(plain)
Compress ==
    /\ archive.stage = "plain"
    /\ archive' = [archive EXCEPT !.stage = "compressed",
                                  !.stored = compressCDB(archive.plain)]
    /\ UNCHANGED <<pipelineVars, column, writer, observed, meta>>

\* restored = decompressCDB(stored)
Decompress ==
    /\ archive.stage = "compressed"
    /\ \E r \in {decompressCDB(archive.stored)} :
          archive' = [archive EXCEPT !.stage = "restored", !.restored = r.data,
                                     !.err = r.err]
    /\ UNCHANGED <<pipelineVars, column, writer, observed, meta>>

\* restored = decompressCDB(plain): a stream that was never compressed.
DecompressPlain ==
    /\ archive.stage = "plain"
    /\ \E r \in {decompressCDB(archive.plain)} :
          archive' = [archive EXCEPT !.stage = "passed", !.restored = r.data,
                                     !.err = r.err]
    /\ UNCHANGED <<pipelineVars, column, writer, observed, meta>>

CompressNext == Compress \/ Decompress \/ DecompressPlain

CompressSpec == CompressInit /\ [][CompressNext]_vars

\* ---------------------------------------------------------------- metadata

MetaTableIds == {0, 1, 3, 149, 524287}
MetaColumnIndexes == {0, 1, 128, 255}
LargePacked == {4095, 4096, 1048575, 2147483647}

Triple(tableId, columnIndex, dataType) ==
    [tableId |-> tableId, columnIndex |-> columnIndex, dataType |-> dataType]

\* The three fields an encoded value unpacks to.
Unpack(encodedValue) ==
    Triple(UnpackTableId(encodedValue), UnpackColumnIndex(encodedValue),
           UnpackDataType(encodedValue))

MetaInit ==
    /\ PipelineIdle
    /\ column = Idle /\ writer = Idle /\ observed = Idle /\ archive = Idle
    /\ \/ \E n \in (0..MaxPacked) \cup LargePacked :
             meta = [stage |-> "packed", from |-> "integer", steps |-> 0,
                     encodedValue |-> n, triple |-> Triple(0, 0, 0),
                     firstValue |-> n, firstTriple |-> Triple(0, 0, 0)]
       \/ \E t \in MetaTableIds, c \in MetaColumnIndexes, d \in DocumentedTypes :
             meta = [stage |-> "unpacked", from |-> "triple", steps |-> 0,
                     encodedValue |-> 0, triple |-> Triple(t, c, d),
                     firstValue |-> 0, firstTriple |-> Triple(t, c, d)]

\* cdbToSQLite computes the encoded value of a column.
PackMeta ==
    /\ meta.stage = "unpacked" /\ meta.steps < 2
    /\ meta' = [meta EXCEPT !.stage = "packed", !.steps = @ + 1,
                  !.encodedValue = Pack(meta.triple.tableId, meta.triple.columnIndex,
                                        meta.triple.dataType)]
    /\ UNCHANGED <<pipelineVars, column, writer, observed, archive>>

\* sqliteToCDB takes the encoded value apart.
UnpackMeta ==
    /\ meta.stage = "packed" /\ meta.steps < 2
    /\ meta' = [meta EXCEPT !.stage = "unpacked", !.steps = @ + 1,
                  !.triple = Unpack(meta.encodedValue)]
    /\ UNCHANGED <<pipelineVars, column, writer, observed, archive>>

MetaNext == PackMeta \/ UnpackMeta

MetaSpec == MetaInit /\ [][MetaNext]_vars

\* ------------------------------------------------------ the writer, driven

\* The Uint8Array behind the writer, every byte of its length, and the
\* position in it: what the methods of CDBWriter do to this.buffer.
NewArray(estimatedSize) == [buffer |-> Zeros(estimatedSize), pos |-> 0]

\* A mutant of Grown: the bytes written so far not copied over.
GrownEmpty(buffer, newSize) == Zeros(newSize)

\* new Uint8Array(newSize) with newBuffer.set(this.buffer)
Grown(buffer, newSize) == buffer \o Zeros(newSize - Len(buffer))

ArrayEnsure(a, additionalBytes) ==
    IF a.pos + additionalBytes > Len(a.buffer)
    THEN [a EXCEPT !.buffer = Grown(@, GrowSize(Len(@), a.pos + additionalBytes))]
    ELSE a

\* write32 and writeBytes: the bytes set at pos.
ArrayWrite(a, bytes) ==
    [ArrayEnsure(a, Len(bytes)) EXCEPT
        !.buffer = SetBytes(@, a.pos, bytes), !.pos = @ + Len(bytes)]

\* writePadding: the position moved on, nothing written.
ArrayPad(a) ==
    IF Padding(a.pos) > 0
    THEN [ArrayEnsure(a, Padding(a.pos)) EXCEPT !.pos = @ + Padding(a.pos)]
    ELSE a

ArrayOpen(a, chunkType, description) ==
    ArrayWrite(ArrayPad(
        Bind(ArrayWrite(ArrayWrite(ArrayWrite(ArrayWrite(ArrayWrite(a,
                CHUNK_BEGIN), LE32(0)), LE32(chunkType)), LE32(0)),
                LE32(IF Truthy(description) THEN 1 ELSE 0)),
             LAMBDA h :
                IF Truthy(description)
                THEN ArrayWrite(ArrayWrite(ArrayWrite(h, LE32(Len(description) + 1)),
                                           description), <<0>>)
                ELSE h)), CHUNK_SEPARATOR)

ArrayClose(a) == ArrayWrite(ArrayPad(a), CHUNK_END)

\* getData: the sizes set through the view of this.buffer.
ArrayPatched(a, closedChunks) == [a EXCEPT !.buffer = PatchSizes(@, closedChunks, 1)]

InitialCapacities == {0, 24, 256}
OpenKinds == {TABLE, COLUMN_VALUES}
Descriptions == {Null, <<97>>}

WriterInit ==
    /\ PipelineIdle
    /\ column = Idle /\ archive = Idle /\ meta = Idle
    /\ \E estimatedSize \in InitialCapacities : writer = NewWriter(estimatedSize)
    /\ observed = [stage |-> "writing", ops |-> 0, open |-> <<>>, closed |-> <<>>,
                   data |-> <<>>, backing |-> NewArray(writer.capacity)]

WriterRuns == observed.stage = "writing" /\ observed.ops < MaxOps /\ ~writer.fault

\* writer.writeChunkOpen(chunkType, description): the driver notes where.
OpenChunk ==
    /\ WriterRuns
    /\ \E chunkType \in OpenKinds, description \in Descriptions :
          /\ writer' = writeChunkOpen(writer, chunkType, description)
          /\ observed' = [observed EXCEPT !.ops = @ + 1, !.open = Append(@, writer.pos),
                             !.backing = ArrayOpen(@, chunkType, description)]
    /\ UNCHANGED <<pipelineVars, column, archive, meta>>

\* writer.write32(value)
WriteWord ==
    /\ WriterRuns
    /\ writer' = write32(writer, <<7, 0, 0, 0>>)
    /\ observed' = [observed EXCEPT !.ops = @ + 1,
                       !.backing = ArrayWrite(@, <<7, 0, 0, 0>>)]
    /\ UNCHANGED <<pipelineVars, column, archive, meta>>

\* writer.writeBytes(bytes)
WriteByte ==
    /\ WriterRuns
    /\ writer' = writeBytes(writer, <<9>>)
    /\ observed' = [observed EXCEPT !.ops = @ + 1, !.backing = ArrayWrite(@, <<9>>)]
    /\ UNCHANGED <<pipelineVars, column, archive, meta>>

\* writer.writeChunkClose(): the driver notes the chunk it closed, from the
\* position it opened it at, by the position its body ended at, to the
\* position after the close, and the chunks that were open around it.
CloseChunk ==
    /\ WriterRuns
    /\ writer' = writeChunkClose(writer)
    /\ LET n == Len(observed.open)
       IN  observed' =
             IF n = 0 THEN [observed EXCEPT !.ops = @ + 1, !.backing = ArrayClose(@)]
             ELSE [observed EXCEPT !.ops = @ + 1,
                     !.backing = ArrayClose(@),
                     !.open = SubSeq(@, 1, n - 1),
                     !.closed = Append(@, [start |-> observed.open[n],
                                           body |-> writer.pos,
                                           end |-> writer'.pos,
                                           depth |-> n])]
    /\ UNCHANGED <<pipelineVars, column, archive, meta>>

\* writer.getData(): the sizes are patched into the writer's own buffer.
GetData ==
    /\ observed.stage = "writing" /\ ~writer.fault
    /\ \E data \in {getData(writer)} :
          /\ observed' = [observed EXCEPT !.stage = "done", !.data = data,
                             !.backing = ArrayPatched(@, writer.closedChunks)]
          /\ writer' = [writer EXCEPT !.buffer = data]
    /\ UNCHANGED <<pipelineVars, column, archive, meta>>

WriterNext == OpenChunk \/ WriteWord \/ WriteByte \/ CloseChunk \/ GetData

WriterSpec == WriterInit /\ [][WriterNext]_vars

\* -------------------------------------------------------------- one column

UndocumentedTypes == {6, 12}
ColumnTypes == DocumentedTypes \cup UndocumentedTypes

\* The ten rows of the boolean example T,F,T,T,F,F,F,T,T,F.
TenBooleans == <<TRUE, FALSE, TRUE, TRUE, FALSE, FALSE, FALSE, TRUE, TRUE, FALSE>>

\* The rows a database holds for the cells of a column whose values are
\* numbers: INTEGER rows, a boolean as 1 or 0.
IntegerRows(dataType, cells) ==
    [k \in 1..Len(cells) |->
        IF dataType = DT_BOOLEAN THEN IntValue(IF cells[k] THEN 1 ELSE 0)
        ELSE IntValue(cells[k])]

HoldsNumbers(dataType) == dataType \notin {DT_FLOAT, DT_STRING, DT_FLOAT_LIST, DT_INTEGER_LIST}

ColumnOf(dataType, cells, zeroBlob) ==
    [stage |-> "stored", type |-> dataType, cells |-> cells, zeroBlob |-> zeroBlob,
     chunk |-> FormatColumnBlob([name |-> <<99>>, columnIndex |-> 2, type |-> dataType,
                                 cells |-> cells], zeroBlob),
     hasValues |-> HoldsNumbers(dataType),
     values |-> IF HoldsNumbers(dataType) THEN IntegerRows(dataType, cells) ELSE <<>>,
     err |-> "", data |-> <<>>, written |-> <<>>]

\* The integers at the ends of the signed 32-bit range, and lists of their words.
ExtremeIntegers == <<2147483647, -2147483647 - 1, -1>>

ExtremeLists ==
    << <<LE32(ExtremeIntegers[2])>>, <<>>,
       <<LE32(ExtremeIntegers[1]), LE32(ExtremeIntegers[3])>> >>

\* The columns the machine starts from: every column type with up to
\* MaxColumnRows rows, with or without an empty blob chunk, the boolean
\* example, and the integers and lists of integers at the ends of the range.
StoredColumns ==
    {[type |-> dataType, zeroBlob |-> zeroBlob,
      cells |-> [r \in 1..rowCount |-> CellAt(dataType, shift, 0, r)]] :
        dataType \in ColumnTypes, rowCount \in 0..MaxColumnRows, shift \in 0..2,
        zeroBlob \in BOOLEAN}
    \cup {[type |-> DT_BOOLEAN, zeroBlob |-> FALSE, cells |-> TenBooleans],
          [type |-> DT_INTEGER, zeroBlob |-> FALSE, cells |-> ExtremeIntegers],
          [type |-> DT_INTEGER_LIST, zeroBlob |-> FALSE, cells |-> ExtremeLists]}

\* The texts of the cells of a string column a database holds.
HeldStrings == { <<>>, <<104, 105>>, <<119, 111, 114, 108, 100>>, <<239, 187, 191, 97>> }

\* The texts of the cells of a list column a database holds: lists as the
\* decoder writes them, lists an editor spaced out, and texts that are no list.
HeldLists ==
    { <<40, 41>>, <<40, 55, 44, 45, 51, 41>>, <<40, 32, 55, 32, 44, 56, 32, 41>>,
      <<40, 49, 46, 53, 41>>, <<55, 44, 56>>, <<40, 55, 44, 44, 56, 41>>,
      <<40, 120, 41>>, <<>> }

RECURSIVE Rows(_, _)
Rows(texts, n) ==
    IF n = 0 THEN {<<>>}
    ELSE Rows(texts, n - 1) \cup
         {Append(s, t) : s \in {q \in Rows(texts, n - 1) : Len(q) = n - 1}, t \in texts}

\* The rows of the string example: "hi", "", "world".
StringExample == << <<104, 105>>, <<>>, <<119, 111, 114, 108, 100>> >>

\* The columns of a database the machine starts from: text columns of
\* strings and of lists, of at most MaxHeldRows rows, and the string example.
HeldColumns ==
    {[type |-> DT_STRING, texts |-> s] : s \in Rows(HeldStrings, MaxHeldRows) \cup {StringExample}}
    \cup {[type |-> t, texts |-> s] :
            t \in {DT_INTEGER_LIST, DT_FLOAT_LIST}, s \in Rows(HeldLists, MaxHeldRows)}

\* A column as a database holds it: its rows, and nothing read or written yet.
HeldColumn(dataType, texts) ==
    [stage |-> "held", type |-> dataType, cells |-> <<>>, zeroBlob |-> FALSE,
     chunk |-> <<>>, hasValues |-> FALSE,
     values |-> [k \in 1..Len(texts) |-> StrValue(texts[k])],
     err |-> "", data |-> <<>>, written |-> <<>>]

ColumnInit ==
    /\ PipelineIdle
    /\ writer = Idle /\ observed = Idle /\ archive = Idle /\ meta = Idle
    /\ \/ \E c \in StoredColumns :
             /\ c.zeroBlob => FormatPayload(c.type, c.cells) = <<>>
             /\ column = ColumnOf(c.type, c.cells, c.zeroBlob)
       \/ \E c \in HeldColumns : column = HeldColumn(c.type, c.texts)

\* One item of readArray(COLUMN_DEFINITIONS): readChunk, then convertColumnData;
\* the values read are the rows the database then holds.
ReadColumn ==
    /\ column.stage = "stored"
    /\ \E chunk \in {ReadChunk(column.chunk, 0)} :
          IF chunk.err # ""
          THEN column' = [column EXCEPT !.stage = "unreadable", !.err = chunk.err]
          ELSE \E conv \in {convertColumnData(chunk.children)} :
                  column' = IF conv.err # ""
                            THEN [column EXCEPT !.stage = "unreadable", !.err = conv.err]
                            ELSE [column EXCEPT !.stage = "read", !.data = conv.data,
                                                !.hasValues = TRUE,
                                                !.values = [k \in 1..Len(conv.data) |->
                                                               SqlStore(conv.data[k])]]
    /\ UNCHANGED <<pipelineVars, writer, observed, archive, meta>>

\* writer.writeColumnData(dataType, values) on the rows held, then getData.
WriteColumnData ==
    /\ column.stage \in {"stored", "read"} /\ column.hasValues
    /\ column' = [column EXCEPT
                    !.stage = IF column.stage = "read" THEN "rewritten" ELSE "written",
                    !.written = getData(writeColumnData(NewWriter(PageSize), column.type,
                                                        column.values))]
    /\ UNCHANGED <<pipelineVars, writer, observed, archive, meta>>

\* The schema PRAGMA table_info gives for a table of one column named c,
\* at column index 2 of table 3.
HeldSchema(dataType) ==
    << [name |-> <<99>>,
        type |-> BaseType(dataType) \o <<32>> \o NatToStr(Pack(3, 2, dataType))] >>

\* One pass of columnNames.forEach in sqliteToCDB on the rows held: the
\* COLUMN chunk of the column, then getData.
WriteColumnChunk ==
    /\ column.stage = "held"
    /\ column' = [column EXCEPT
                    !.stage = "encoded",
                    !.chunk = getData(WriteColumn(NewWriter(PageSize), <<(<<99>>)>>,
                                HeldSchema(column.type),
                                [r \in 1..Len(column.values) |-> <<column.values[r]>>],
                                1))]
    /\ UNCHANGED <<pipelineVars, writer, observed, archive, meta>>

\* The COLUMN chunk written is read as ReadColumn reads a stored one.
ReadBack ==
    /\ column.stage = "encoded"
    /\ \E chunk \in {ReadChunk(column.chunk, 0)} :
          IF chunk.err # ""
          THEN column' = [column EXCEPT !.stage = "lost", !.err = chunk.err]
          ELSE \E conv \in {convertColumnData(chunk.children)} :
                  column' = IF conv.err # ""
                            THEN [column EXCEPT !.stage = "lost", !.err = conv.err]
                            ELSE [column EXCEPT !.stage = "reread", !.data = conv.data]
    /\ UNCHANGED <<pipelineVars, writer, observed, archive, meta>>

ColumnNext == ReadColumn \/ WriteColumnData \/ WriteColumnChunk \/ ReadBack

ColumnSpec == ColumnInit /\ [][ColumnNext]_vars

\* ------------------------------------------------------------------ claims

\* The chunk stream inside the bytes sqliteToCDB returned.
EncodedStream == decompressCDB(encoded).data

\* C1: for every valid file, compressed or not, decoding it and encoding the
\* unmodified database succeeds and gives bytes that decompress to the same
\* stream as the file.
C1_RoundTrip ==
    stage \in {"encoded", "failed"} =>
        /\ stage = "encoded"
        /\ EncodedStream = decompressCDB(cdbData).data

\* C2: packing and unpacking the metadata integer are mutually inverse:
\* an integer unpacked and packed again is the same integer, and a legal
\* triple packed and unpacked again is the same triple.
C2_PackUnpackInverse ==
    meta.stage # "idle" /\ meta.steps = 2 =>
        /\ meta.from = "integer" => meta.encodedValue = meta.firstValue
        /\ meta.from = "triple" => meta.triple = meta.firstTriple

C2_Witness ==
    /\ meta.stage # "idle" /\ meta.steps = 2 /\ meta.from = "triple"
    /\ meta.firstTriple = Triple(524287, 255, DT_INTEGER_LIST)

\* The size field of the chunk the driver saw opened at start.
SizeField(start) == U32(WordAt(observed.data, start + 4))

\* C3: in the bytes getData returns, the size field of every closed chunk,
\* at its start offset + 4, is the number of bytes from its begin marker
\* through its end marker, and the size of a chunk covers every chunk that
\* was opened and closed inside it.
C3_SizeFieldCoversChunk ==
    observed.stage = "done" =>
        \A k \in 1..Len(observed.closed) :
            LET chunk == observed.closed[k]
            IN  /\ WordAt(observed.data, chunk.start) = CHUNK_BEGIN
                /\ WordAt(observed.data, chunk.end - 4) = CHUNK_END
                /\ SizeField(chunk.start) = chunk.end - chunk.start
                /\ \A j \in 1..(k - 1) :
                      observed.closed[j].start > chunk.start =>
                          observed.closed[j].start + SizeField(observed.closed[j].start)
                              <= chunk.start + SizeField(chunk.start)

C3_Witness ==
    /\ observed.stage = "done"
    /\ \E k \in 1..Len(observed.closed) : \E j \in 1..(k - 1) :
          /\ observed.closed[k].depth = 1 /\ observed.closed[j].depth = 2
          /\ observed.closed[j].start > observed.closed[k].start
          /\ observed.closed[j].end - observed.closed[j].start > 28

\* C4: the COLUMN chunks of every table come out in the order of the table's
\* schema, each with the cells of its own column in row order.
C4_ColumnOrder ==
    stage = "encoded" =>
        LET out == ReadChunk(EncodedStream, 0)
            tables == ChildOf(out.children, DATABASE_TABLES)
        IN  /\ out.err = "" /\ tables.has
            /\ \A t \in 1..Len(tables.value) :
                  LET emitted == tables.value[t].columns
                      held == TableNamed(db, NameText(tables.value[t].name))
                  IN  /\ emitted.has
                      /\ [c \in 1..Len(emitted.value) |-> emitted.value[c].name]
                            = SchemaNames(held)
                      /\ \A c \in 1..Len(held.cols) :
                            [r \in 1..Len(emitted.value[c].data) |->
                                SqlStore(emitted.value[c].data[r])]
                                = ColumnCells(held.rows, c)

\* The offsets of the chunks of a kind in a stream.
ChunkStarts(stream, kind) ==
    {p \in 0..(Len(stream) - 12) :
        /\ p % 4 = 0
        /\ WordAt(stream, p) = CHUNK_BEGIN
        /\ WordAt(stream, p + 8) = LE32(kind)}

\* C5: the TABLE chunks come out in ascending order of table identifier,
\* whatever the order of the rows of DB_STRUCTURE, and the count written
\* at the head of the array is the number of TABLE chunks.
C5_TablesAscending ==
    stage = "encoded" =>
        LET stream == EncodedStream
            ids == ChunkStarts(stream, TABLE_ID)
            arrays == ChunkStarts(stream, DATABASE_TABLES)
            tables == ChunkStarts(stream, TABLE)
        IN  /\ \A p, q \in ids :
                  p < q => U32(WordAt(stream, p + 24)) <= U32(WordAt(stream, q + 24))
            /\ Cardinality(tables) = Len(db.structure)
            /\ Cardinality(ids) = Cardinality(tables)
            /\ Cardinality(arrays) = 1
            /\ \A p \in arrays :
                  /\ WordAt(stream, p + 24) = ARRAY_BEGIN
                  /\ WordAt(stream, p + 28) = LE32(Cardinality(tables))

C5_Witness ==
    /\ stage = "encoded"
    /\ Len(db.structure) = 2
    /\ IdKey(db.structure[1]) > IdKey(db.structure[2])

\* C6: reading a column succeeds for every documented data type and fails,
\* with the unknown-data-type error, exactly for the others.
C6_DecodesDocumentedTypes ==
    column.stage \in {"read", "unreadable"} =>
        /\ column.stage = "read" <=> column.type \in DocumentedTypes
        /\ column.stage = "unreadable" => column.err = "UnknownDataType"

\* C7: a BOOLEAN column is written as ceil(N/8) bytes, row i in bit i mod 8
\* of byte i div 8, and is read back as the same rows.
C7_BooleanBitPacked ==
    column.stage # "idle" /\ column.type = DT_BOOLEAN =>
        /\ column.stage # "unreadable"
        /\ column.stage = "read" => column.data = IntegerRows(DT_BOOLEAN, column.cells)
        /\ column.stage = "written" =>
              column.written = FormatChunk(COLUMN_VALUES, Null, PackBits(column.cells))

\* C8: the file without tables decodes to a database that holds DB_STRUCTURE
\* alone, without rows, and that database encodes to the stream of the file.
C8_EmptyDatabase ==
    stage # "idle" /\ Len(source) = 0 =>
        /\ stage # "failed"
        /\ stage \in {"decoded", "encoded"} => db = EmptyDb
        /\ stage = "encoded" => EncodedStream = decompressCDB(cdbData).data

\* C9: compressCDB writes the marker, the size of the stream and the size of
\* the deflated payload, then that payload and nothing else; decompressCDB
\* gives the stream back; a stream that does not start with the marker is
\* returned as it is.
C9_CompressionFraming ==
    /\ archive.stage \in {"compressed", "restored"} =>
          /\ Len(archive.stored) >= 12
          /\ WordAt(archive.stored, 0) = COMPRESSED_MAGIC
          /\ WordAt(archive.stored, 4) = LE32(Len(archive.plain))
          /\ WordAt(archive.stored, 8) = LE32(Len(archive.stored) - 12)
          /\ Inflate(SubSeq(archive.stored, 13, Len(archive.stored)))
                = [err |-> "", data |-> archive.plain]
    /\ archive.stage = "restored" =>
          archive.err = "" /\ archive.restored = archive.plain
    /\ archive.stage = "passed" /\ Len(archive.plain) >= 4
          /\ WordAt(archive.plain, 0) # COMPRESSED_MAGIC =>
          archive.err = "" /\ archive.restored = archive.plain

C9_Witness ==
    /\ archive.stage = "restored"
    /\ Len(archive.plain) > 4
    /\ WordAt(archive.plain, 0) = COMPRESSED_MAGIC

\* C10: a column of strings or of lists is written with a blob chunk exactly
\* when its payload is not empty, a column without rows as an empty values
\* chunk alone; and a column without payload reads as the same rows whether
\* it has no blob chunk or one that holds the size 0 alone.
C10_BlobOnlyWithPayload ==
    column.stage # "idle" /\ column.type \in {DT_STRING, DT_FLOAT_LIST, DT_INTEGER_LIST} =>
        LET payload == FormatPayload(column.type, column.cells)
            valuesSize == U32(WordAt(column.written, 4))
        IN  /\ column.stage = "rewritten" =>
                  /\ Len(column.written) > valuesSize <=> payload # <<>>
                  /\ payload # <<>> =>
                        WordAt(column.written, valuesSize + 8) = LE32(COLUMN_BLOB_DATA)
                  /\ Len(column.cells) = 0 =>
                        column.written = FormatChunk(COLUMN_VALUES, Null, <<>>)
            /\ column.stage \in {"read", "rewritten"} /\ payload = <<>> =>
                  column.data = [k \in 1..Len(column.cells) |-> StrValue(<<40, 41>>)]
            /\ payload = <<>> => column.stage # "unreadable"

C10_Witness ==
    /\ column.stage = "rewritten"
    /\ column.type = DT_INTEGER_LIST
    /\ column.zeroBlob
    /\ Len(column.cells) > 0
    /\ Len(column.written) = U32(WordAt(column.written, 4))
\* ------------------------------------------------- the pipeline on variants
\* The pipeline run on files that depart from the layout the encoder writes:
\* the children of every TABLE and of every COLUMN in another order, a child
\* left out, a framing sentinel overwritten, a table identifier that
\* TABLE_FLAGS_BY_ID does not list.

TableChildKinds == <<TABLE_ID, ROW_COUNT, TABLE_FLAGS, COLUMN_DEFINITIONS>>

ColumnChildKinds == <<COLUMN_INDEX, COLUMN_DATA_TYPE, COLUMN_VALUES, COLUMN_BLOB_DATA>>

\* A child of a COLUMN chunk, by kind; a column without payload has no blob.
ColumnChild(col, kind) ==
    CASE kind = COLUMN_INDEX -> FormatChunk(COLUMN_INDEX, Null, LE32(col.columnIndex))
      [] kind = COLUMN_DATA_TYPE -> FormatChunk(COLUMN_DATA_TYPE, col.name, LE32(col.type))
      [] kind = COLUMN_VALUES ->
            FormatChunk(COLUMN_VALUES, Null, FormatValues(col.type, col.cells))
      [] OTHER -> Bind(FormatPayload(col.type, col.cells), LAMBDA payload :
                     IF payload # <<>> THEN FormatBlob(payload) ELSE <<>>)

\* A COLUMN chunk with the children of the kinds given, in that order.
FormatColumnOrdered(col, kinds) ==
    FormatChunk(COLUMN, col.name,
        Concat([k \in 1..Len(kinds) |-> ColumnChild(col, kinds[k])], 1))

TableChild(table, kind, columnKinds) ==
    CASE kind = TABLE_ID -> FormatChunk(TABLE_ID, Null, LE32(table.tableId))
      [] kind = ROW_COUNT -> FormatChunk(ROW_COUNT, Null, LE32(table.rowCount))
      [] kind = TABLE_FLAGS -> FormatChunk(TABLE_FLAGS, Null, LE32(table.tableFlags))
      [] OTHER -> FormatChunk(COLUMN_DEFINITIONS, Null,
                      FormatArray([c \in 1..Len(table.columns) |->
                          FormatColumnOrdered(table.columns[c], columnKinds)]))

FormatTableOrdered(table, tableKinds, columnKinds) ==
    FormatChunk(TABLE, table.name,
        Concat([k \in 1..Len(tableKinds) |->
                   TableChild(table, tableKinds[k], columnKinds)], 1))

FormatFileOrdered(tables, tableKinds, columnKinds) ==
    FormatChunk(WRAPPER,
        <<99, 121, 97, 110, 105, 100, 101, 32, 100, 97, 116, 97, 98, 97, 115, 101>>,
        FormatChunk(DATABASE_FLAGS, Null, LE32(DATABASE_FLAGS_VALUE))
        \o FormatChunk(DATABASE_TABLES, Null,
              FormatArray([t \in 1..Len(tables) |->
                  FormatTableOrdered(tables[t], tableKinds, columnKinds)])))

\* The orders of the elements of a sequence.
Orders(kinds) ==
    {[i \in 1..Len(kinds) |-> kinds[p[i]]] :
        p \in {q \in [1..Len(kinds) -> 1..Len(kinds)] :
                 \A i, j \in 1..Len(kinds) : i # j => q[i] # q[j]}}

\* A sequence without one of its elements.
Without(kinds, kind) == SelectSeq(kinds, LAMBDA x : x # kind)

Reversed(kinds) == [i \in 1..Len(kinds) |-> kinds[Len(kinds) + 1 - i]]

\* The layouts tried: one of the two orders varied, or both reversed, or one
\* child left out.
Layouts ==
    {<<t, ColumnChildKinds>> : t \in Orders(TableChildKinds)}
    \cup {<<TableChildKinds, c>> : c \in Orders(ColumnChildKinds)}
    \cup {<<Reversed(TableChildKinds), Reversed(ColumnChildKinds)>>}
    \cup {<<Without(TableChildKinds, k), ColumnChildKinds>> :
            k \in {TABLE_ID, ROW_COUNT, TABLE_FLAGS, COLUMN_DEFINITIONS}}
    \cup {<<TableChildKinds, Without(ColumnChildKinds, k)>> :
            k \in {COLUMN_INDEX, COLUMN_DATA_TYPE, COLUMN_VALUES}}

\* The offsets of the framing sentinels of a stream.
SentinelOffsets(stream) ==
    {p \in 0..(Len(stream) - 4) :
        /\ p % 4 = 0
        /\ WordAt(stream, p) \in {CHUNK_BEGIN, CHUNK_SEPARATOR, CHUNK_END,
                                  ARRAY_BEGIN, ARRAY_END}}

\* A word that is no sentinel.
WrongSentinel == <<1, 2, 3, 4>>

\* An identifier that TABLE_FLAGS_BY_ID does not list.
UnlistedTableId == 5

VariantSchemas == {<<DT_INTEGER, DT_STRING>>, <<DT_FLOAT_LIST>>}

VariantOf(tables, tableKinds, columnKinds, tampered) ==
    [stage |-> "varied", tableKinds |-> tableKinds, columnKinds |-> columnKinds,
     tampered |-> tampered, reference |-> FormatFile(tables)]

VariantInit ==
    /\ db = EmptyDb /\ encoded = <<>> /\ stage = "loaded" /\ error = ""
    /\ batch = Idle /\ console = Idle /\ handler = Idle
    /\ column = Idle /\ writer = Idle /\ observed = Idle /\ archive = Idle /\ meta = Idle
    /\ \E id \in {3, UnlistedTableId}, schema \in VariantSchemas, rowCount \in RowCounts :
          /\ source = SourceTables(<<id>>, schema, "letters", rowCount)
          /\ \/ \E layout \in Layouts :
                   /\ id = 3 \/ layout = <<TableChildKinds, ColumnChildKinds>>
                   /\ variant = VariantOf(source, layout[1], layout[2], -1)
                   /\ cdbData = FormatFileOrdered(source, layout[1], layout[2])
             \/ \E stream \in {FormatFile(source)} :
                   \E p \in SentinelOffsets(stream) :
                      /\ id = 3
                      /\ variant = VariantOf(source, TableChildKinds, ColumnChildKinds, p)
                      /\ cdbData = SetBytes(stream, p, WrongSentinel)

VariantNext == Decode \/ Encode

VariantSpec == VariantInit /\ [][VariantNext]_vars
\* --------------------------------------------------- the row batches
\* The INSERT statements cdbToSQLite runs for one table that it has created,
\* a table of columnsPerRow columns and rowCount rows.  A cell is known by its
\* place: col.data[rowIdx] is <<rowIdx, the index of col>>.

\* The bound of SQLite on the variables of a statement, as the code has it.
MaxVariables == 999

ColumnCounts == {1, 2, 3, 333, 334, 499, 500, 999, 1000}

\* Math.floor(999 / columnsPerRow)
MaxRowsPerBatch(columnsPerRow) == MaxVariables \div columnsPerRow

\* The params of one statement: for every row of [i, end), the cell of every
\* column in column order.
BatchParams(i, end, columnsPerRow) ==
    [p \in 1..((end - i) * columnsPerRow) |->
        <<i + (p - 1) \div columnsPerRow, (p - 1) % columnsPerRow>>]

BatchInit ==
    /\ source = <<>> /\ cdbData = <<>> /\ db = EmptyDb /\ encoded = <<>>
    /\ stage = "idle" /\ error = "" /\ variant = Idle
    /\ console = Idle /\ handler = Idle
    /\ column = Idle /\ writer = Idle /\ observed = Idle /\ archive = Idle /\ meta = Idle
    /\ \E columnsPerRow \in ColumnCounts, rowCount \in 0..MaxBatchRows :
          batch = [stage |-> "created", columnsPerRow |-> columnsPerRow,
                   rowCount |-> rowCount, maxRowsPerBatch |-> 0, i |-> 0,
                   statements |-> <<>>]

\* `if (table.rowCount > 0)`: the batch size is computed and the loop entered.
StartInserts ==
    /\ batch.stage = "created"
    /\ batch' = IF batch.rowCount > 0
                THEN [batch EXCEPT !.stage = "inserting",
                                   !.maxRowsPerBatch = MaxRowsPerBatch(batch.columnsPerRow)]
                ELSE [batch EXCEPT !.stage = "done"]
    /\ UNCHANGED <<source, cdbData, db, encoded, stage, error, variant, console, handler,
                   column, writer,
                   observed, archive, meta>>

\* One pass of the loop over i: an INSERT of the rows [i, end).  A statement
\* without a row has nothing after VALUES, which the engine refuses, as it
\* refuses a statement of more variables than its bound.
InsertBatch ==
    /\ batch.stage = "inserting"
    /\ \E end \in {Min(batch.i + batch.maxRowsPerBatch, batch.rowCount)} :
          batch' = IF end = batch.i \/ (end - batch.i) * batch.columnsPerRow > MaxVariables
                   THEN [batch EXCEPT !.stage = "failed"]
                   ELSE [batch EXCEPT
                           !.statements = Append(@, [first |-> batch.i,
                               params |-> BatchParams(batch.i, end, batch.columnsPerRow)]),
                           !.i = @ + batch.maxRowsPerBatch,
                           !.stage = IF batch.i + batch.maxRowsPerBatch < batch.rowCount
                                     THEN "inserting" ELSE "done"]
    /\ UNCHANGED <<source, cdbData, db, encoded, stage, error, variant, console, handler,
                   column, writer,
                   observed, archive, meta>>

BatchNext == StartInserts \/ InsertBatch

BatchSpec == BatchInit /\ [][BatchNext]_vars
\* -------------------------------------------------- claims on one column

\* The bytes the writer gave for the column: the values chunk and the blob
\* chunk of writeColumnData, or the whole COLUMN chunk.
Emitted == IF column.stage = "rewritten" THEN column.written ELSE column.chunk

\* The sum of the n words of a stream from an offset, as numbers.
RECURSIVE SumWords(_, _, _)
SumWords(stream, from, n) ==
    IF n = 0 THEN 0
    ELSE U32(WordAt(stream, from)) + SumWords(stream, from + 4, n - 1)

\* The number of words in the body of the chunk at an offset, a chunk
\* without description.
BodyWords(stream, p) == (U32(WordAt(stream, p + 4)) - 28) \div 4

ElementSize(dataType) == IF dataType = DT_STRING THEN 1 ELSE 4

\* C11: whenever a column of strings or of lists is written with a blob
\* chunk, the size at the head of the blob is the sum of the entries of the
\* values chunk times the element size (1 for strings, 4 for lists), and the
\* body of the blob chunk is that many bytes after the 4 bytes of the size
\* (then the padding to a multiple of 4 and the end marker).
C11_BlobBodyLength ==
    /\ column.stage \in {"rewritten", "encoded", "reread"}
    /\ column.type \in {DT_STRING, DT_FLOAT_LIST, DT_INTEGER_LIST}
    => LET stream == Emitted
       IN  \A v \in ChunkStarts(stream, COLUMN_VALUES) :
           \A b \in ChunkStarts(stream, COLUMN_BLOB_DATA) :
              LET total == SumWords(stream, v + 24, BodyWords(stream, v))
                            * ElementSize(column.type)
                  size == U32(WordAt(stream, b + 4))
              IN  /\ WordAt(stream, b + 24) = LE32(total)
                  /\ size = 24 + 4 + total + Padding(total) + 4
                  /\ WordAt(stream, b + size - 4) = CHUNK_END
                  /\ b = v + U32(WordAt(stream, v + 4))

C11_Witness ==
    /\ column.stage = "encoded"
    /\ column.type = DT_STRING
    /\ column.values = [k \in 1..3 |-> StrValue(StringExample[k])]
    /\ \E b \in ChunkStarts(column.chunk, COLUMN_BLOB_DATA) :
          WordAt(column.chunk, b + 24) = LE32(10)

\* The words of the body of the chunk at an offset, a chunk without description.
BodyOf(stream, p) ==
    [k \in 1..BodyWords(stream, p) |-> WordAt(stream, p + 24 + 4 * (k - 1))]

C13_IntegerListRoundTrip ==
    column.stage \in {"read", "rewritten"} /\ column.type = DT_INTEGER_LIST =>
        LET words == Concat(column.cells, 1)
            payload == Concat(words, 1)
        IN  /\ \A k \in 1..Len(column.cells) :
                  /\ column.data[k].t = "str"
                  /\ column.data[k].s[1] = 40
                  /\ column.data[k].s[Len(column.data[k].s)] = 41
                  /\ column.cells[k] = <<LE32(7), LE32(-3)>> =>
                        column.data[k].s = <<40, 55, 44, 45, 51, 41>>
                  /\ column.cells[k] = <<>> <=> column.data[k].s = <<40, 41>>
            /\ column.stage = "rewritten" =>
                  /\ BodyOf(column.written, 0)
                        = [k \in 1..Len(column.cells) |-> LE32(Len(column.cells[k]))]
                  /\ \A k \in 1..Len(column.cells) :
                        column.data[k].s = <<40, 41>> =>
                            WordAt(column.written, 24 + 4 * (k - 1)) = LE32(0)
                  /\ IF words = <<>>
                     THEN ChunkStarts(column.written, COLUMN_BLOB_DATA) = {}
                     ELSE \E b \in ChunkStarts(column.written, COLUMN_BLOB_DATA) :
                            /\ WordAt(column.written, b + 24) = LE32(4 * Len(words))
                            /\ SubSeq(column.written, b + 29, b + 28 + Len(payload)) = payload
                            /\ U32(WordAt(column.written, b + 4)) = 32 + Len(payload)

C13_Witness ==
    /\ column.stage = "rewritten"
    /\ column.type = DT_INTEGER_LIST
    /\ column.cells = ExtremeLists
    /\ column.data[1].s = <<40, 45, 50, 49, 52, 55, 52, 56, 51, 54, 52, 56, 41>>
    /\ column.data[2].s = <<40, 41>>

\* The words of the values chunk of the column as stored.
StoredWords ==
    LET v == CHOOSE p \in ChunkStarts(column.chunk, COLUMN_VALUES) : TRUE
    IN  BodyOf(column.chunk, v)

\* C14: every word of the values chunk of an INTEGER column is read as the
\* signed integer of [-2^31, 2^31) congruent to it modulo 2^32 (the word
\* itself below 2^31, the word minus 2^32 from 2^31 on), and writing the
\* integers read gives the same words back.
C14_SignedIntegerRoundTrip ==
    column.stage \in {"read", "rewritten"} /\ column.type = DT_INTEGER =>
        /\ Len(column.data) = Len(StoredWords)
        /\ \A k \in 1..Len(StoredWords) :
              LET w == StoredWords[k]
                  n == column.data[k].n
              IN  /\ column.data[k].t = "num" /\ column.data[k].f = 0
                  /\ n >= -2147483647 - 1 /\ n <= 2147483647
                  /\ w[4] < 128 => n = U32(w)
                  /\ w[4] >= 128 =>
                        /\ n < 0
                        /\ n + 2147483647 + 1 = U32(<<w[1], w[2], w[3], w[4] - 128>>)
        /\ column.stage = "rewritten" =>
              /\ BodyOf(column.written, 0) = StoredWords
              /\ Len(column.written) = 28 + 4 * Len(StoredWords)

C14_Witness ==
    /\ column.stage = "rewritten"
    /\ column.type = DT_INTEGER
    /\ StoredWords = << <<255, 255, 255, 127>>, <<0, 0, 0, 128>>, <<255, 255, 255, 255>> >>
    /\ column.data[2].n = -2147483647 - 1
\* ------------------------------------------------ claims on the row batches

\* The rows a statement inserts.
RowsIn(statement) == Len(statement.params) \div batch.columnsPerRow

\* C15: the rows of a table of c columns and r > 0 rows are inserted in
\* statements of floor(999 / c) rows (the last one of what is left), none of
\* more than 999 parameters, the statements taking up the rows one after the
\* other from row 0 on without a gap or a row twice, every row with its cells
\* in column order; and all the r rows are inserted.
C15_RowBatches ==
    batch.stage \in {"done", "failed"} /\ batch.rowCount > 0 =>
        LET c == batch.columnsPerRow
            n == Len(batch.statements)
        IN  /\ batch.stage = "done"
            /\ n > 0
            /\ batch.statements[1].first = 0
            /\ \A k \in 1..n :
                  LET st == batch.statements[k]
                  IN  /\ Len(st.params) <= 999
                      /\ Len(st.params) % c = 0
                      /\ k < n => /\ RowsIn(st) = 999 \div c
                                  /\ batch.statements[k + 1].first = st.first + RowsIn(st)
                      /\ k = n => /\ RowsIn(st) >= 1 /\ RowsIn(st) <= 999 \div c
                                  /\ st.first + RowsIn(st) = batch.rowCount
                      /\ \A j \in 1..RowsIn(st) : \A q \in 1..c :
                            st.params[(j - 1) * c + q] = <<st.first + j - 1, q - 1>>
\* ------------------------------------------------- claims on variants

Varied == variant.stage = "varied"

Lacks(kinds, required) ==
    \E k \in required : \A i \in 1..Len(kinds) : kinds[i] # k

IsOrderOf(kinds, canonical) ==
    /\ Len(kinds) = Len(canonical)
    /\ \A k \in 1..Len(canonical) : \E i \in 1..Len(kinds) : kinds[i] = canonical[k]

\* C16: decoding fails, and yields no database, whenever a framing sentinel
\* of the input is wrong: the begin, separator or end magic of a chunk, or
\* the ARRAY_BEGIN or ARRAY_END sentinel of an array body.
C16_BadMagicFails ==
    (Varied /\ variant.tampered >= 0 /\ stage # "loaded") =>
        /\ stage = "failed"
        /\ db = EmptyDb

\* C17: decoding fails, and yields no database, whenever a TABLE chunk lacks
\* TABLE_ID, ROW_COUNT or COLUMN_DEFINITIONS, or a COLUMN chunk lacks
\* COLUMN_INDEX, COLUMN_DATA_TYPE or COLUMN_VALUES; a file that lacks only
\* TABLE_FLAGS is decoded.
C17_MissingChildFails ==
    (Varied /\ variant.tampered < 0 /\ stage # "loaded") =>
        /\ (\/ Lacks(variant.tableKinds, {TABLE_ID, ROW_COUNT, COLUMN_DEFINITIONS})
            \/ Lacks(variant.columnKinds,
                     {COLUMN_INDEX, COLUMN_DATA_TYPE, COLUMN_VALUES}))
              => (stage = "failed" /\ db = EmptyDb)
        /\ (/\ variant.tableKinds = Without(TableChildKinds, TABLE_FLAGS)
            /\ variant.columnKinds = ColumnChildKinds)
              => db # EmptyDb

\* The TABLE_ID chunk that goes with a TABLE_FLAGS chunk of an encoded
\* stream: the last one before it.
IdChunkBefore(stream, p) ==
    CHOOSE q \in ChunkStarts(stream, TABLE_ID) :
        /\ q < p
        /\ \A o \in ChunkStarts(stream, TABLE_ID) : o < p => o <= q

\* C18: the TABLE_FLAGS value the encoder writes is the entry of
\* TABLE_FLAGS_BY_ID for the table's identifier, and the encoder produces
\* no output for a database with an identifier that the map does not list.
C18_TableFlagsFromMap ==
    stage = "encoded" =>
        /\ \A k \in 1..Len(db.structure) :
              /\ db.structure[k].id.t = "num"
              /\ db.structure[k].id.n \in DOMAIN TABLE_FLAGS_BY_ID
        /\ \A p \in ChunkStarts(EncodedStream, TABLE_FLAGS) :
              WordAt(EncodedStream, p + 24)
                 = LE32(TABLE_FLAGS_BY_ID[
                     U32(WordAt(EncodedStream, IdChunkBefore(EncodedStream, p) + 24))])

\* C20: a file whose TABLE children and COLUMN children are in another
\* order decodes to the same tables, columns, annotations and rows as the
\* file with the children in the encoder's order.
C20_ChildOrderIndependent ==
    (/\ Varied /\ variant.tampered < 0 /\ stage # "loaded"
     /\ IsOrderOf(variant.tableKinds, TableChildKinds)
     /\ IsOrderOf(variant.columnKinds, ColumnChildKinds)) =>
        /\ cdbToSQLite(variant.reference).err = ""
        /\ db = cdbToSQLite(variant.reference).db

C20_Witness ==
    /\ Varied /\ stage = "decoded"
    /\ variant.tableKinds = Reversed(TableChildKinds)
    /\ variant.columnKinds = Reversed(ColumnChildKinds)
    /\ Len(db.tables) = 1
    /\ Len(db.tables[1].rows) = MaxRows
    /\ Len(db.tables[1].cols) = 2
\* ------------------------------------------------- claims on list texts

\* A field of a list text: a number, with spaces around it allowed.
IsField(s) ==
    Bind(Trim(s), LAMBDA t :
    Bind(IF Len(t) > 0 /\ t[1] = 45 THEN 2 ELSE 1, LAMBDA first :
        /\ Len(t) >= first
        /\ IsDigit(t[first]) /\ IsDigit(t[Len(t)])
        /\ \A i \in first..Len(t) : IsDigit(t[i]) \/ t[i] = 46
        /\ Cardinality({i \in first..Len(t) : t[i] = 46}) <= 1))

\* The grammar of a list text: '(' field (',' field)* ')' or '()'.
MatchesListGrammar(s) ==
    \/ s = <<40, 41>>
    \/ /\ Len(s) >= 3 /\ s[1] = 40 /\ s[Len(s)] = 41
       /\ Bind(Split(SubSeq(s, 2, Len(s) - 1)), LAMBDA fields :
             \A k \in 1..Len(fields) : IsField(fields[k]))

\* C19: a column of type 10 or 11 is encoded only if the text of every cell
\* matches the list grammar; a cell without parentheses, with an empty field
\* or with a field that is no number makes the encoding fail without output.
C19_MalformedListFails ==
    (/\ column.stage \in {"encoded", "reread", "lost"}
     /\ column.type \in {DT_INTEGER_LIST, DT_FLOAT_LIST}) =>
        \A k \in 1..Len(column.values) : MatchesListGrammar(column.values[k].s)
\* ------------------------------------------------- claims on the chunk tree

\* The offsets at which a chunk begins in a stream.
AllStarts(stream) ==
    {p \in 0..(Len(stream) - 12) : p % 4 = 0 /\ WordAt(stream, p) = CHUNK_BEGIN}

SizeAt(stream, p) == U32(WordAt(stream, p + 4))

KindAt(stream, p) == U32(WordAt(stream, p + 8))

\* The chunks directly inside the chunk at p: those within its size that are
\* within no other chunk inside it.
Kids(stream, starts, p) ==
    {q \in starts :
        /\ p < q /\ q < p + SizeAt(stream, p)
        /\ ~\E r \in starts : p < r /\ r < q /\ q < r + SizeAt(stream, r)}

RECURSIVE Ascending(_)
Ascending(offsets) ==
    IF offsets = {} THEN <<>>
    ELSE Bind(CHOOSE m \in offsets : \A o \in offsets : m <= o, LAMBDA least :
            <<least>> \o Ascending(offsets \ {least}))

\* The kinds of the children of the chunk at p, in the order of the file.
KidKinds(stream, starts, p) ==
    Bind(Ascending(Kids(stream, starts, p)), LAMBDA kids :
        [i \in 1..Len(kids) |-> KindAt(stream, kids[i])])

\* C21: in every output of the encoder the children of a TABLE chunk are
\* TABLE_ID, ROW_COUNT, TABLE_FLAGS, COLUMN_DEFINITIONS in that order, the
\* children of a COLUMN chunk are COLUMN_INDEX, COLUMN_DATA_TYPE,
\* COLUMN_VALUES and then COLUMN_BLOB_DATA if there is one, and the WRAPPER
\* holds DATABASE_FLAGS, of value 274, and then DATABASE_TABLES.
C21_FixedChildOrder ==
    stage = "encoded" =>
        Bind(EncodedStream, LAMBDA stream :
        Bind(AllStarts(stream), LAMBDA starts :
            /\ 0 \in starts /\ KindAt(stream, 0) = WRAPPER
            /\ \A p \in starts :
                  /\ KindAt(stream, p) = WRAPPER =>
                        /\ KidKinds(stream, starts, p) = <<DATABASE_FLAGS, DATABASE_TABLES>>
                        /\ \A q \in Kids(stream, starts, p) :
                              KindAt(stream, q) = DATABASE_FLAGS =>
                                 WordAt(stream, q + 24) = LE32(274)
                  /\ KindAt(stream, p) = TABLE =>
                        KidKinds(stream, starts, p)
                           = <<TABLE_ID, ROW_COUNT, TABLE_FLAGS, COLUMN_DEFINITIONS>>
                  /\ KindAt(stream, p) = COLUMN =>
                        KidKinds(stream, starts, p)
                           \in { <<COLUMN_INDEX, COLUMN_DATA_TYPE, COLUMN_VALUES>>,
                                 <<COLUMN_INDEX, COLUMN_DATA_TYPE, COLUMN_VALUES,
                                   COLUMN_BLOB_DATA>> }))

C21_Witness ==
    /\ stage = "encoded"
    /\ Len(db.structure) = 2
    /\ Bind(EncodedStream, LAMBDA stream :
       Bind(AllStarts(stream), LAMBDA starts :
          /\ \E p \in starts : /\ KindAt(stream, p) = COLUMN
                               /\ Len(KidKinds(stream, starts, p)) = 4
          /\ \E p \in starts : /\ KindAt(stream, p) = COLUMN
                               /\ Len(KidKinds(stream, starts, p)) = 3))
\* ------------------------------------------------- claims on the writer's buffer

\* The bytes getData returns: this.buffer.subarray(0, this.pos).
Returned == Subarray(observed.backing.buffer, 0, observed.backing.pos)

\* The offset after the header of the chunk at start, before its padding.
HeaderEnd(data, start) ==
    IF WordAt(data, start + 16) = LE32(0) THEN start + 20
    ELSE start + 24 + U32(WordAt(data, start + 20))

\* The bytes of padding that bring a position to a multiple of 4.
PadBytes(pos) == (4 - (pos % 4)) % 4

AllZero(data, from, to) == \A i \in (from + 1)..to : data[i] = 0

\* C22: in the bytes the writer returns, the separator and the end marker
\* of every chunk start at a multiple of 4, the padding before each is
\* (4 - (pos & 3)) & 3 bytes, and every padding byte is zero.
C22_AlignedZeroPadding ==
    observed.stage = "done" =>
        \A k \in 1..Len(observed.closed) :
            Bind(observed.closed[k], LAMBDA chunk :
            Bind(HeaderEnd(Returned, chunk.start), LAMBDA headerEnd :
                /\ (headerEnd + PadBytes(headerEnd)) % 4 = 0
                /\ WordAt(Returned, headerEnd + PadBytes(headerEnd)) = CHUNK_SEPARATOR
                /\ AllZero(Returned, headerEnd, headerEnd + PadBytes(headerEnd))
                /\ (chunk.end - 4) % 4 = 0
                /\ chunk.end - 4 = chunk.body + PadBytes(chunk.body)
                /\ WordAt(Returned, chunk.end - 4) = CHUNK_END
                /\ AllZero(Returned, chunk.body, chunk.end - 4)))

C22_Witness ==
    /\ observed.stage = "done"
    /\ Len(observed.backing.buffer) \notin InitialCapacities
    /\ \E k \in 1..Len(observed.closed) :
          /\ PadBytes(HeaderEnd(Returned, observed.closed[k].start)) = 3
          /\ PadBytes(observed.closed[k].body) = 3

\* C23: after every operation the buffer is at least as long as the write
\* position, the bytes before the position are the bytes written (growth
\* keeps them), and the sizes getData patches are in the bytes it returns.
C23_GrowthKeepsBytes ==
    observed.stage \in {"writing", "done"} =>
        /\ Len(observed.backing.buffer) >= observed.backing.pos
        /\ observed.backing.pos = writer.pos
        /\ observed.stage = "writing" => Returned = writer.buffer
        /\ observed.stage = "done" =>
              /\ Returned = observed.data
              /\ \A k \in 1..Len(writer.closedChunks) :
                    U32(WordAt(Returned, writer.closedChunks[k].startPos + 4))
                       = writer.closedChunks[k].size

C23_Witness ==
    /\ observed.stage = "done"
    /\ Len(writer.closedChunks) = 2
    /\ Len(observed.backing.buffer) > 24
    /\ Len(observed.backing.buffer) < 256
\* ------------------------------------------------- claims on the chunk stack

\* The writer of the encoding just done, as getData finds it.
WriterAtGetData == EncodeWriter(db, ExportLength(db)).writer

\* Two chunks, each from its start to its end: one inside the other, or apart.
NestedOrApart(a, b) ==
    \/ a.startPos + a.size <= b.startPos
    \/ b.startPos + b.size <= a.startPos
    \/ (a.startPos <= b.startPos /\ b.startPos + b.size <= a.startPos + a.size)
    \/ (b.startPos <= a.startPos /\ a.startPos + a.size <= b.startPos + b.size)

\* C24: in every run of sqliteToCDB no writeChunkClose finds the stack
\* empty, the stack is empty when getData is called, every chunk opened is
\* once in closedChunks, and any two chunks are nested or disjoint.
C24_BalancedChunks ==
    stage = "encoded" =>
        Bind(WriterAtGetData, LAMBDA w :
            /\ ~w.fault
            /\ w.chunkStack = <<>>
            /\ {w.closedChunks[k].startPos : k \in 1..Len(w.closedChunks)}
                  = AllStarts(w.buffer)
            /\ \A j, k \in 1..Len(w.closedChunks) :
                  j # k => /\ w.closedChunks[j].startPos # w.closedChunks[k].startPos
                           /\ NestedOrApart(w.closedChunks[j], w.closedChunks[k]))

C24_Witness ==
    /\ stage = "encoded"
    /\ Len(db.structure) = 2
    /\ \E k \in 1..Len(WriterAtGetData.closedChunks) :
          WriterAtGetData.closedChunks[k].type = COLUMN_BLOB_DATA
\* ------------------------------------------------- claims on the reader's cursor

\* The well-formed stream at hand: the file loaded, or the encoder's output.
StreamAtHand == IF stage = "encoded" THEN EncodedStream ELSE decompressCDB(cdbData).data

\* C25: on a well-formed stream, the file loaded or the stream the encoder
\* produced, whenever readChunk returns for a
\* chunk, of any kind and at any depth, the cursor is at the chunk's start
\* plus its size field, and a container has read every chunk directly
\* inside it and none past its end.
C25_CursorAtChunkEnd ==
    stage \in {"loaded", "encoded"} =>
        Bind(StreamAtHand, LAMBDA stream :
        Bind(AllStarts(stream), LAMBDA starts :
            \A p \in starts :
                Bind(ReadChunk(stream, p), LAMBDA chunk :
                    chunk.err = "" =>
                        /\ chunk.pos = p + SizeAt(stream, p)
                        /\ chunk.isContainer =>
                              Len(chunk.children) = Cardinality(Kids(stream, starts, p)))))

C25_Witness ==
    /\ stage = "encoded"
    /\ Bind(EncodedStream, LAMBDA stream :
          /\ ReadChunk(stream, 0).err = ""
          /\ \E p \in AllStarts(stream) :
                /\ KindAt(stream, p) = COLUMN
                /\ ReadChunk(stream, p).err = ""
                /\ Len(ReadChunk(stream, p).children) = 4
                /\ ReadChunk(stream, p).pos < Len(stream) - 20)
\* ------------------------------------------------- claims on the insertion loop

\* C26: the loop that inserts the rows of a table ends for every table of
\* at least one row and at least one column, more than 999 columns
\* included, because every pass of the loop leaves the batch start index
\* greater than it found it.
C26_IndexIncreases ==
    [][batch.stage = "inserting" => batch'.i > batch.i]_vars
\* ------------------------------------------------- a header, read and written
\* One chunk header read by readChunkHeader and written again, by
\* writeChunkOpen, with the kind and the description that were read.

HeaderKinds ==
    {WRAPPER, DATABASE_TABLES, DATABASE_FLAGS, TABLE, ROW_COUNT, COLUMN_DEFINITIONS,
     TABLE_ID, TABLE_FLAGS, COLUMN, COLUMN_DATA_TYPE, COLUMN_VALUES, COLUMN_BLOB_DATA,
     COLUMN_INDEX}

HeaderDescriptions ==
    {Null, <<>>, <<97>>, <<97, 98>>, <<97, 98, 99>>, <<97, 98, 99, 100>>}

HeaderCapacities == {0, 64}

HeaderInit ==
    /\ PipelineIdle
    /\ column = Idle /\ archive = Idle /\ meta = Idle
    /\ \E estimatedSize \in HeaderCapacities : writer = NewWriter(estimatedSize)
    /\ \E chunkType \in HeaderKinds, description \in HeaderDescriptions :
          observed = [stage |-> "framed",
                      data |-> FormatChunk(chunkType, description, <<>>),
                      header |-> NoHeader]

\* header = reader.readChunkHeader()
ReadHeader ==
    /\ observed.stage = "framed"
    /\ observed' = [observed EXCEPT !.stage = "headed",
                                    !.header = readChunkHeader(observed.data, 0)]
    /\ UNCHANGED <<pipelineVars, column, writer, archive, meta>>

\* writer.writeChunkOpen(header.chunkType, header.description)
WriteHeader ==
    /\ observed.stage = "headed" /\ observed.header.err = ""
    /\ writer' = writeChunkOpen(writer, U32(observed.header.chunkType),
                                observed.header.description)
    /\ observed' = [observed EXCEPT !.stage = "reframed"]
    /\ UNCHANGED <<pipelineVars, column, archive, meta>>

HeaderNext == ReadHeader \/ WriteHeader

HeaderSpec == HeaderInit /\ [][HeaderNext]_vars

\* C27: a header read with has-description = 1 is written again with
\* has-description = 1, the same description length and the same
\* description bytes, the empty description (length 1, the NUL alone)
\* included.
C27_DescriptionKept ==
    (observed.stage = "reframed" /\ WordAt(observed.data, 16) = LE32(1)) =>
        /\ WordAt(writer.buffer, 16) = LE32(1)
        /\ WordAt(writer.buffer, 20) = WordAt(observed.data, 20)
        /\ Subarray(writer.buffer, 24, 24 + U32(WordAt(observed.data, 20)))
              = Subarray(observed.data, 24, 24 + U32(WordAt(observed.data, 20)))
\* ------------------------------------------------- the SQL console
\* executeQuery on a database of one table T and the user_version of its
\* header.  A query is its text together with the statements the engine
\* finds in it, each by what it does: "select" reads, "delete" empties T,
\* "insert" adds a row to T, "pragma" sets user_version, "error" is refused.

\* The texts of writeKeywords: INSERT, UPDATE, DELETE, DROP, CREATE, ALTER,
\* REPLACE, TRUNCATE, ATTACH, DETACH, VACUUM, REINDEX.
writeKeywords ==
    { <<73, 78, 83, 69, 82, 84>>,
      <<85, 80, 68, 65, 84, 69>>,
      <<68, 69, 76, 69, 84, 69>>,
      <<68, 82, 79, 80>>,
      <<67, 82, 69, 65, 84, 69>>,
      <<65, 76, 84, 69, 82>>,
      <<82, 69, 80, 76, 65, 67, 69>>,
      <<84, 82, 85, 78, 67, 65, 84, 69>>,
      <<65, 84, 84, 65, 67, 72>>,
      <<68, 69, 84, 65, 67, 72>>,
      <<86, 65, 67, 85, 85, 77>>,
      <<82, 69, 73, 78, 68, 69, 88>> }

\* String.prototype.toUpperCase, on the letters a to z.
ToUpperCase(s) == [i \in 1..Len(s) |-> IF s[i] >= 97 /\ s[i] <= 122 THEN s[i] - 32 ELSE s[i]]

StartsWith(s, prefix) == Len(s) >= Len(prefix) /\ SubSeq(s, 1, Len(prefix)) = prefix

isWriteQuery(sql) ==
    Bind(ToUpperCase(Trim(sql)), LAMBDA trimmed :
        \E keyword \in writeKeywords : StartsWith(trimmed, keyword))

Query(sql, runs) == [sql |-> sql, runs |-> runs]

Queries ==
    { \* SELECT 1
      Query(<<83, 69, 76, 69, 67, 84, 32, 49>>,
            <<"select">>),
      \* DELETE FROM T
      Query(<<68, 69, 76, 69, 84, 69, 32, 70, 82, 79, 77, 32, 84>>,
            <<"delete">>),
      \*  delete from T
      Query(<<32, 100, 101, 108, 101, 116, 101, 32, 102, 114, 111, 109, 32, 84>>,
            <<"delete">>),
      \* INSERT INTO T VALUES (1)
      Query(<<73, 78, 83, 69, 82, 84, 32, 73, 78, 84, 79, 32, 84, 32, 86, 65, 76, 85, 69, 83, 32, 40, 49, 41>>,
            <<"insert">>),
      \* -- c\nDELETE FROM T
      Query(<<45, 45, 32, 99, 10, 68, 69, 76, 69, 84, 69, 32, 70, 82, 79, 77, 32, 84>>,
            <<"delete">>),
      \* SELECT 1; DELETE FROM T
      Query(<<83, 69, 76, 69, 67, 84, 32, 49, 59, 32, 68, 69, 76, 69, 84, 69, 32, 70, 82, 79, 77, 32, 84>>,
            <<"select", "delete">>),
      \* WITH x AS (SELECT 1) DELETE FROM T
      Query(<<87, 73, 84, 72, 32, 120, 32, 65, 83, 32, 40, 83, 69, 76, 69, 67, 84, 32, 49, 41, 32, 68, 69, 76, 69, 84, 69, 32, 70, 82, 79, 77, 32, 84>>,
            <<"delete">>),
      \* PRAGMA user_version = 5
      Query(<<80, 82, 65, 71, 77, 65, 32, 117, 115, 101, 114, 95, 118, 101, 114, 115, 105, 111, 110, 32, 61, 32, 53>>,
            <<"pragma">>),
      \* SELEC 1
      Query(<<83, 69, 76, 69, 67, 32, 49>>,
            <<"error">>) }

maxHistorySize == 20

\* db.run(sql) and db.exec(sql): the statements run one after the other; a
\* statement that is refused throws, and what ran before it stays done.
RECURSIVE RunStatements(_, _, _)
RunStatements(database, runs, k) ==
    IF k > Len(runs) THEN [database |-> database, thrown |-> FALSE]
    ELSE CASE runs[k] = "error" -> [database |-> database, thrown |-> TRUE]
           [] runs[k] = "delete" ->
                 RunStatements([database EXCEPT !.rows = 0], runs, k + 1)
           [] runs[k] = "insert" ->
                 RunStatements([database EXCEPT !.rows = @ + 1], runs, k + 1)
           [] runs[k] = "pragma" ->
                 RunStatements([database EXCEPT !.version = 5], runs, k + 1)
           [] OTHER -> RunStatements(database, runs, k + 1)

Includes(history, sql) == \E k \in 1..Len(history) : history[k] = sql

\* [sql, ...queryHistory.slice(0, maxHistorySize - 1)]
WithQuery(history, sql) ==
    IF Includes(history, sql) THEN history
    ELSE <<sql>> \o SubSeq(history, 1, Min(Len(history), maxHistorySize - 1))

\* What executeQuery leaves: the database, the history and the result.
executeQuery(database, query, consoleState) ==
    IF isWriteQuery(query.sql) /\ ~consoleState.writeMode
    THEN [database |-> database, queryHistory |-> consoleState.queryHistory,
          success |-> FALSE, rejected |-> TRUE]
    ELSE Bind(RunStatements(database, query.runs, 1), LAMBDA ran :
            [database |-> ran.database,
             queryHistory |-> IF ran.thrown THEN consoleState.queryHistory
                              ELSE WithQuery(consoleState.queryHistory, query.sql),
             success |-> ~ran.thrown, rejected |-> FALSE])

ConsoleInit ==
    /\ source = <<>> /\ cdbData = <<>> /\ db = EmptyDb /\ encoded = <<>>
    /\ stage = "idle" /\ error = "" /\ variant = Idle /\ batch = Idle /\ handler = Idle
    /\ column = Idle /\ writer = Idle /\ observed = Idle /\ archive = Idle /\ meta = Idle
    /\ \E rows \in 0..1 :
          console = [stage |-> "open", writeMode |-> FALSE, queryHistory |-> <<>>,
                     database |-> [rows |-> rows, version |-> 0], calls |-> 0,
                     sql |-> <<>>, before |-> [rows |-> rows, version |-> 0],
                     historyBefore |-> <<>>, modeAtCall |-> FALSE,
                     success |-> FALSE, rejected |-> FALSE]

consoleFrame ==
    <<source, cdbData, db, encoded, stage, error, variant, batch, handler, column, writer,
      observed, archive, meta>>

\* The change listener of writeModeToggle.
ToggleWriteMode ==
    /\ console.stage \in {"open", "ran"} /\ console.calls < MaxQueries
    /\ \E checked \in BOOLEAN :
          /\ checked # console.writeMode
          /\ console' = [console EXCEPT !.writeMode = checked]
    /\ UNCHANGED consoleFrame

\* executeQuery(db, sql, consoleState): the driver notes the database and
\* the history the call found.
ExecuteQuery ==
    /\ console.stage \in {"open", "ran"} /\ console.calls < MaxQueries
    /\ \E query \in Queries :
          \E r \in {executeQuery(console.database, query, console)} :
             console' = [console EXCEPT
                           !.stage = "ran", !.calls = @ + 1, !.sql = query.sql,
                           !.before = console.database,
                           !.historyBefore = console.queryHistory,
                           !.modeAtCall = console.writeMode,
                           !.database = r.database, !.queryHistory = r.queryHistory,
                           !.success = r.success, !.rejected = r.rejected]
    /\ UNCHANGED consoleFrame

ConsoleNext == ToggleWriteMode \/ ExecuteQuery

ConsoleSpec == ConsoleInit /\ [][ConsoleNext]_vars

\* C28: while writeMode is false executeQuery never changes the database:
\* whatever the text, the call is rejected or it runs and leaves the
\* contents as they were; a rejected query is not run and is not added to
\* the history.
C28_ReadOnlyWithoutWriteMode ==
    (console.stage = "ran" /\ ~console.modeAtCall) =>
        /\ console.database = console.before
        /\ console.rejected =>
              /\ ~console.success
              /\ console.queryHistory = console.historyBefore
\* ------------------------------------------------- the file handler
\* loadFile and downloadDatabase with the callbacks they leave to the event
\* loop: the onload or onerror of every FileReader, which come in any
\* order, and the timers, which fire in the order they were set.

FileName(base, ext) == [base |-> base, ext |-> ext]

\* `let currentFileName = null`
NoFileName == FileName("", "")

\* A file dropped: its name and what becomes of it.  "readError" fails in
\* the FileReader, "convertError" makes the conversion throw, "callbackError"
\* makes onDatabaseLoaded throw after it has stored the database.
Files ==
    {[name |-> n, outcome |-> o] :
        n \in {FileName("a", "cdb"), FileName("b", "sqlite")},
        o \in {"ok", "readError", "convertError", "callbackError"}}

\* extension === 'cdb'
IsCDB(file) == file.name.ext = "cdb"

\* currentFileName.replace(/\.(sqlite|db)$/, '.cdb') for the format cdb,
\* currentFileName.replace(/\.cdb$/, '.sqlite') for the other.
DownloadName(name, format) ==
    IF format = "cdb"
    THEN (IF name.ext \in {"sqlite", "db"} THEN FileName(name.base, "cdb") ELSE name)
    ELSE (IF name.ext = "cdb" THEN FileName(name.base, "sqlite") ELSE name)

NoDatabase == [from |-> NoFileName]

\* setLoadingState(isLoading): the overlay, and the count of the calls.
SetLoading(h, isLoading) ==
    IF isLoading THEN [h EXCEPT !.loading = TRUE, !.raised = @ + 1]
    ELSE [h EXCEPT !.loading = FALSE]

\* A mutant of AfterFailure: the overlay left as it is when loading fails.
AfterFailureLeft(h, isCDB) == h

\* The catch of processFile: `if (isCDB) setLoadingState(false)`.
AfterFailure(h, isCDB) == IF isCDB THEN SetLoading(h, FALSE) ELSE h

\* processFile: the conversion, the overlay taken down, onDatabaseLoaded
\* with the database and currentFileName; state.db is set before anything
\* in the callback can throw.
ProcessFile(h, file) ==
    IF file.outcome = "convertError" THEN AfterFailure(h, IsCDB(file))
    ELSE Bind(IF IsCDB(file) THEN SetLoading(h, FALSE) ELSE h, LAMBDA g :
         Bind([g EXCEPT !.db = [from |-> file.name],
                        !.loaded = [fileName |-> h.currentFileName, from |-> file.name]],
              LAMBDA called :
                 IF file.outcome = "callbackError"
                 THEN AfterFailure(called, IsCDB(file))
                 ELSE called))

\* The timer of downloadDatabase('cdb'), both branches of its try.
ExportFile(h, database, throws) ==
    IF throws THEN SetLoading(h, FALSE)
    ELSE SetLoading([h EXCEPT !.download =
                        [name |-> DownloadName(h.currentFileName, "cdb"),
                         from |-> database.from]], FALSE)

HandlerInit ==
    /\ source = <<>> /\ cdbData = <<>> /\ db = EmptyDb /\ encoded = <<>>
    /\ stage = "idle" /\ error = "" /\ variant = Idle /\ batch = Idle /\ console = Idle
    /\ column = Idle /\ writer = Idle /\ observed = Idle /\ archive = Idle /\ meta = Idle
    /\ handler = [stage |-> "ready", currentFileName |-> NoFileName, loading |-> FALSE,
                  raised |-> 0, reads |-> {}, timers |-> <<>>, db |-> NoDatabase,
                  loaded |-> [fileName |-> NoFileName, from |-> NoFileName],
                  download |-> [name |-> NoFileName, from |-> NoFileName],
                  loads |-> 0, clicks |-> 0]

handlerFrame ==
    <<source, cdbData, db, encoded, stage, error, variant, batch, console, column, writer,
      observed, archive, meta>>

\* loadFile(file): the name kept, the read started.
LoadFile ==
    /\ handler.stage = "ready" /\ handler.loads < MaxLoads
    /\ \E file \in Files :
          handler' = [handler EXCEPT
                        !.currentFileName = file.name,
                        !.loads = @ + 1,
                        !.reads = @ \cup {[id |-> handler.loads + 1, file |-> file]}]
    /\ UNCHANGED handlerFrame

\* reader.onload: a CDB file raises the overlay and leaves processFile to a
\* timer, another file is processed at once.
ReaderOnLoad ==
    /\ handler.stage = "ready"
    /\ \E read \in handler.reads :
          /\ read.file.outcome # "readError"
          /\ \E h \in {[handler EXCEPT !.reads = @ \ {read}]} :
                handler' = IF IsCDB(read.file)
                           THEN [SetLoading(h, TRUE) EXCEPT
                                   !.timers = Append(@, [kind |-> "process",
                                                         file |-> read.file,
                                                         database |-> NoDatabase])]
                           ELSE ProcessFile(h, read.file)
    /\ UNCHANGED handlerFrame

\* reader.onerror
ReaderOnError ==
    /\ handler.stage = "ready"
    /\ \E read \in handler.reads :
          /\ read.file.outcome = "readError"
          /\ handler' = AfterFailure([handler EXCEPT !.reads = @ \ {read}],
                                     IsCDB(read.file))
    /\ UNCHANGED handlerFrame

\* downloadDatabase(format): nothing without a database; the format cdb
\* raises the overlay and leaves the export to a timer, with the database
\* it found; the other format downloads at once.
DownloadDatabase ==
    /\ handler.stage = "ready" /\ handler.clicks < MaxClicks
    /\ \E format \in {"sqlite", "cdb"} :
          \E h \in {[handler EXCEPT !.clicks = @ + 1]} :
             handler' =
                IF handler.db = NoDatabase THEN h
                ELSE IF format = "cdb"
                THEN [SetLoading(h, TRUE) EXCEPT
                        !.timers = Append(@, [kind |-> "export",
                                              file |-> [name |-> NoFileName,
                                                        outcome |-> "ok"],
                                              database |-> handler.db])]
                ELSE [h EXCEPT !.download =
                        [name |-> DownloadName(handler.currentFileName, "sqlite"),
                         from |-> handler.db.from]]
    /\ UNCHANGED handlerFrame

\* The timer set first fires: processFile, or the export, which sqliteToCDB
\* may make throw.
TimerFires ==
    /\ handler.stage = "ready" /\ Len(handler.timers) > 0
    /\ \E timer \in {handler.timers[1]} :
       \E h \in {[handler EXCEPT !.timers = Tail(@)]} :
          IF timer.kind = "process"
          THEN handler' = ProcessFile(h, timer.file)
          ELSE \E throws \in BOOLEAN : handler' = ExportFile(h, timer.database, throws)
    /\ UNCHANGED handlerFrame

HandlerNext ==
    LoadFile \/ ReaderOnLoad \/ ReaderOnError \/ DownloadDatabase \/ TimerFires

\* The event loop runs every callback it holds.
HandlerSpec ==
    /\ HandlerInit /\ [][HandlerNext]_vars
    /\ WF_vars(ReaderOnLoad) /\ WF_vars(ReaderOnError) /\ WF_vars(TimerFires)

\* C29: whatever the order of the callbacks, the fileName given to
\* onDatabaseLoaded with a database is the name of the file the database was
\* read from, and a download is named after the file whose database is
\* the one loaded.
C29_NameOfLoadedFile ==
    handler.stage = "ready" =>
        /\ handler.loaded.fileName = handler.loaded.from
        /\ handler.download.name.base = handler.download.from.base

\* Nothing is left to the event loop.
Settled == handler.reads = {} /\ handler.timers = <<>>

\* C30: every setLoadingState(true) is followed by a setLoadingState(false),
\* whether the conversion succeeds or throws, the callback throws or the
\* read fails, and the overlay is down once every callback has run.
C30_LoadingEnds ==
    /\ [](handler.stage = "ready" /\ Settled => ~handler.loading)
    /\ (handler.stage = "ready" /\ handler.loading)
          ~> (handler.stage = "ready" /\ ~handler.loading)

C30_Witness ==
    /\ handler.stage = "ready" /\ Settled
    /\ handler.raised = 2
    /\ ~handler.loading
    /\ handler.loaded.from = NoFileName

====
